---- MODULE Spec2Model ----
(***************************************************************************)
(* Model of reddit_saved_downloader.py (class RedditMediaDownloader).      *)
(*                                                                         *)
(* Strings are sequences of tokens.  A token is an indivisible piece of    *)
(* text: a punctuation character ("/", ".", "?", ":", " "), a single       *)
(* character, or a word of alphanumeric characters.  Python's substring    *)
(* test `m in s` is a contiguous token-subsequence test, os.path.splitext  *)
(* and os.path.basename look for the "." and "/" tokens.  Post titles are  *)
(* written one character per token so that [:50] counts characters.        *)
(*                                                                         *)
(* A value read from a JSON dict is an option record: Absent (key not in   *)
(* the dict), Null (JSON null / Python None) or Val(v).                    *)
(***************************************************************************)
EXTENDS Integers, Sequences, FiniteSets, TLC

\* ------------------------------------------------------------------------
\* JSON values and Python string primitives
\* ------------------------------------------------------------------------

Absent == [k |-> "absent"]

Null == [k |-> "null"]

Val(v) == [k |-> "val", v |-> v]

\* dict.get(key): an absent key reads as None
Get(o) == IF o.k = "absent" THEN Null ELSE o

\* Python truthiness of an optional string
TruthyStr(o) == o.k = "val" /\ o.v # <<>>

\* `m in s` for strings: m occurs as a contiguous run of tokens of s
Contains(s, m) ==
    \E i \in 1..(Len(s) - Len(m) + 1) : SubSeq(s, i, i + Len(m) - 1) = m

\* the largest index of s whose token is in toks, 0 when there is none
LastIndexOf(s, toks) ==
    LET I == {i \in 1..Len(s) : s[i] \in toks}
    IN  IF I = {} THEN 0 ELSE CHOOSE i \in I : \A j \in I : j <= i

\* the smallest index >= from of s whose token is in toks, Len(s)+1 when none
FirstIndexOf(s, toks, from) ==
    LET I == {i \in from..Len(s) : s[i] \in toks}
    IN  IF I = {} THEN Len(s) + 1 ELSE CHOOSE i \in I : \A j \in I : i <= j

\* os.path.basename(p)
Basename(p) == SubSeq(p, LastIndexOf(p, {"/"}) + 1, Len(p))

\* os.path.splitext(p) = <<root, ext>>: the extension starts at the last "."
\* of the last path component, unless only dots precede it there
Splitext(p) ==
    LET sep == LastIndexOf(p, {"/"})
        dot == LastIndexOf(p, {"."})
    IN  IF dot > sep /\ (\E i \in (sep + 1)..(dot - 1) : p[i] # ".")
        THEN <<SubSeq(p, 1, dot - 1), SubSeq(p, dot, Len(p))>>
        ELSE <<p, <<>>>>

\* str.lower(), token by token (the upper-case tokens the model uses)
LowerTok(t) ==
    CASE t = "JPG" -> "jpg"
      [] t = "PNG" -> "png"
      [] t = "MP4" -> "mp4"
      [] OTHER -> t

Lower(s) == [i \in 1..Len(s) |-> LowerTok(s[i])]

\* urlparse(url).path: what follows scheme://netloc, up to "?" or "#"
UrlPath(url) ==
    LET hasNetloc == Len(url) >= 4 /\ url[2] = ":" /\ url[3] = "/" /\ url[4] = "/"
        start == IF hasNetloc THEN FirstIndexOf(url, {"/", "?", "#"}, 5) ELSE 1
        stop  == FirstIndexOf(url, {"?", "#"}, start)
    IN  SubSeq(url, start, stop - 1)

\* The substrings the program searches URLs for
REDGIFS_COM == <<"redgifs", ".", "com">>

V_REDD_IT == <<"v", ".", "redd", ".", "it">>

\* the recognized direct-media extensions (after the ".")
MediaExts == {"jpg", "jpeg", "png", "gif", "mp4", "webm", "gifv"}

IsMediaExt(ext) == Len(ext) = 2 /\ ext[1] = "." /\ ext[2] \in MediaExts

\* ------------------------------------------------------------------------
\* _get_media_urls
\* ------------------------------------------------------------------------

\* The result of a call that may raise: [raised, urls]
Raised == [raised |-> TRUE, urls |-> <<>>]

Returned(urls) == [raised |-> FALSE, urls |-> urls]

\* rule: domain == 'redgifs.com' and the key url_overridden_by_dest present
\* (a None value makes the later `'v.redd.it' in url` raise, see
\* OverrideRaises, so only string values are ever returned)
RedgifsRule(post) ==
    IF Get(post.domain) = Val("redgifs.com") /\ post.url_overridden_by_dest.k = "val"
    THEN <<post.url_overridden_by_dest.v>>
    ELSE <<>>

\* post.get('media', {}).get('reddit_video', {}) raises when media is None
MediaRaises(post) ==
    /\ Get(post.is_video) = Val(TRUE)
    /\ post.media.k = "null"

RedditVideoRule(post) ==
    IF Get(post.is_video) = Val(TRUE) /\ post.media.k = "val"
       /\ post.media.v.reddit_video.k = "val"
    THEN LET vd == post.media.v.reddit_video.v
         IN  IF TruthyStr(Get(vd.fallback_url)) THEN <<vd.fallback_url.v>>
             ELSE IF TruthyStr(Get(vd.hls_url)) THEN <<vd.hls_url.v>>
             ELSE <<>>
    ELSE <<>>

\* post.get('preview', {}).get('reddit_video_preview', {}) raises when
\* preview is None
PreviewRaises(post) == post.preview.k = "null"

PreviewRule(post, urls) ==
    IF post.preview.k = "val" /\ post.preview.v.reddit_video_preview.k = "val"
       /\ TruthyStr(Get(post.preview.v.reddit_video_preview.v.fallback_url))
       /\ urls = <<>>
    THEN <<post.preview.v.reddit_video_preview.v.fallback_url.v>>
    ELSE <<>>

\* 'v.redd.it' in url raises TypeError when the value is None
OverrideRaises(post) == post.url_overridden_by_dest.k = "null"

OverrideRule(post) ==
    IF post.url_overridden_by_dest.k = "val"
    THEN LET url == post.url_overridden_by_dest.v
         IN  IF Contains(url, V_REDD_IT) THEN <<url>>
             ELSE IF IsMediaExt(Lower(Splitext(url)[2])) THEN <<url>>
             ELSE <<>>
    ELSE <<>>

\* the closing log line: with no URL found and a truthy
\* url_overridden_by_dest, domain.endswith raises when domain is None
DomainRaises(post, urls) ==
    /\ urls = <<>>
    /\ TruthyStr(Get(post.url_overridden_by_dest))
    /\ post.domain.k = "null"

\* _get_media_urls(post): the candidate URLs in rule order
GetMediaUrls(post) ==
    IF MediaRaises(post) \/ PreviewRaises(post) \/ OverrideRaises(post)
    THEN Raised
    ELSE LET u1 == RedgifsRule(post) \o RedditVideoRule(post)
             u2 == u1 \o PreviewRule(post, u1)
             u3 == u2 \o OverrideRule(post)
         IN  IF DomainRaises(post, u3) THEN Raised ELSE Returned(u3)

\* ------------------------------------------------------------------------
\* _generate_filename
\* ------------------------------------------------------------------------

\* the configured output directory (self.output_dir)
OutputDir == <<"out">>

\* os.path.join(self.output_dir, filename); a filename that is already
\* absolute (starts with the output directory) is returned as it is
JoinOutputDir(filename) ==
    IF Len(filename) > Len(OutputDir) /\ SubSeq(filename, 1, Len(OutputDir) + 1) = OutputDir \o <<"/">>
    THEN filename
    ELSE OutputDir \o <<"/">> \o filename

\* tokens for which neither c.isalnum() nor c in '-_' holds
Punctuation == {" ", ".", "/", "?", ":", "#", "!", ",", "'", "&", "="}

\* ''.join(c if c.isalnum() or c in '-_' else '_' for c in post_title)
CleanTitle(title) == [i \in 1..Len(title) |-> IF title[i] \in Punctuation THEN "_" ELSE title[i]]

RECURSIVE Strip(_)
\* str.strip(): leading and trailing blanks removed
Strip(s) ==
    IF s = <<>> THEN s
    ELSE IF Head(s) = " " THEN Strip(Tail(s))
    ELSE IF s[Len(s)] = " " THEN Strip(SubSeq(s, 1, Len(s) - 1))
    ELSE s

\* clean_title[:50]
TitleLimit == 50

Truncate(s, n) == SubSeq(s, 1, IF Len(s) < n THEN Len(s) ELSE n)

RECURSIVE Join(_)
\* the text of a token sequence
Join(s) == IF s = <<>> THEN "" ELSE Head(s) \o Join(Tail(s))

\* hashlib.md5(url.encode()).hexdigest()[:8], as a collision-free token
Md5Hex8(url) == "md5_" \o Join(url)

\* the extension _generate_filename settles on (<<>>: none, the candidate
\* cannot be named)
FileExt(post, url) ==
    LET file_ext == Lower(Splitext(Basename(UrlPath(url)))[2])
    IN  IF file_ext # <<>> THEN file_ext
        ELSE IF Contains(url, REDGIFS_COM) THEN <<".", "mp4">>
        ELSE IF Get(post.is_video) = Val(TRUE) THEN <<".", "mp4">>
        ELSE <<>>

\* f"{post_id}": post_data.get('id', '')
IdText(post) ==
    IF post.id.k = "val" THEN <<post.id.v>>
    ELSE IF post.id.k = "null" THEN <<"None">>
    ELSE <<>>

\* post_data.get('title', '')
TitleText(post) == IF post.title.k = "val" THEN post.title.v ELSE <<>>

\* _generate_filename(post_data, url) under self.filename_style = style
GenerateFilename(post, url, style) ==
    LET file_ext    == FileExt(post, url)
        clean_title == Truncate(CleanTitle(Strip(TitleText(post))), TitleLimit)
        filename ==
            CASE style = "basic"    -> clean_title \o <<" --- ">> \o IdText(post) \o file_ext
              [] style = "pretty"   -> clean_title \o file_ext
              [] style = "advanced" -> clean_title \o <<"-">> \o IdText(post) \o <<"-", Md5Hex8(url)>> \o file_ext
              [] OTHER              -> Basename(UrlPath(url))
    IN  IF file_ext = <<>> THEN <<>> ELSE JoinOutputDir(filename)

\* ------------------------------------------------------------------------
\* _extract_redgifs_id
\* ------------------------------------------------------------------------

RECURSIVE RStrip(_, _)
\* str.rstrip(tok)
RStrip(s, tok) ==
    IF s # <<>> /\ s[Len(s)] = tok THEN RStrip(SubSeq(s, 1, Len(s) - 1), tok) ELSE s

\* s.split(m)[-1]: what follows the last occurrence of m in s (s itself
\* when m does not occur)
AfterLast(s, m) ==
    LET I == {i \in 1..(Len(s) - Len(m) + 1) : SubSeq(s, i, i + Len(m) - 1) = m}
    IN  IF I = {} THEN s
        ELSE LET i == CHOOSE i \in I : \A j \in I : j <= i
             IN  SubSeq(s, i + Len(m), Len(s))

\* s.split(tok)[0]: what precedes the first tok
BeforeFirst(s, tok) == SubSeq(s, 1, FirstIndexOf(s, {tok}, 1) - 1)

\* _extract_redgifs_id(url); <<>> stands for the ValueError raised on an
\* empty id
ExtractRedgifsId(url) ==
    LET path == RStrip(UrlPath(url), "/")
        gif_id ==
            IF Contains(path, <<"/", "watch", "/">>)
            THEN BeforeFirst(AfterLast(path, <<"/", "watch", "/">>), "/")
            ELSE IF Contains(path, <<"/", "ifr", "/">>)
            THEN BeforeFirst(AfterLast(path, <<"/", "ifr", "/">>), "/")
            ELSE AfterLast(path, <<"/">>)
    IN  BeforeFirst(BeforeFirst(gif_id, "."), "?")

\* the byte-stream URL the RedGifs metadata record names for a gif id
\* (data['gif']['urls'][quality], chosen by the server)
RedgifsVideoUrl(gif_id) ==
    <<"https", ":", "/", "/", "media", ".", "redgifs", ".", "com", "/">> \o gif_id \o <<".", "mp4">>

\* ------------------------------------------------------------------------
\* process_posts, the synchronous part: ledger filter and task list
\* ------------------------------------------------------------------------

\* post_data.get('id')
PostId(post) == Get(post.id)

\* posts.reverse()
Reverse(s) == [i \in 1..Len(s) |-> s[Len(s) + 1 - i]]

RECURSIVE FilterPostsNoSkip(_, _, _)
\* FilterPosts without the test `post_id in self.processed_posts`
FilterPostsNoSkip(posts, acc, i) ==
    IF i > Len(posts) \/ acc.raised THEN acc
    ELSE IF posts[i].data.k = "absent" THEN FilterPostsNoSkip(posts, acc, i + 1)
    ELSE IF posts[i].data.k = "null" THEN [acc EXCEPT !.raised = TRUE]
    ELSE LET post_data == posts[i].data.v
             res       == GetMediaUrls(post_data)
         IN  IF res.raised THEN [acc EXCEPT !.raised = TRUE]
             ELSE IF res.urls # <<>>
             THEN FilterPostsNoSkip(posts,
                      [acc EXCEPT !.filtered = Append(@, posts[i]),
                                  !.total_urls = @ + Len(res.urls),
                                  !.processed_posts = @ \cup {PostId(post_data)}],
                      i + 1)
             ELSE FilterPostsNoSkip(posts, acc, i + 1)

RECURSIVE FilterPostsNoMark(_, _, _)
\* FilterPosts without `self.processed_posts.add(post_id)`
FilterPostsNoMark(posts, acc, i) ==
    IF i > Len(posts) \/ acc.raised THEN acc
    ELSE IF posts[i].data.k = "absent" THEN FilterPostsNoMark(posts, acc, i + 1)
    ELSE IF posts[i].data.k = "null" THEN [acc EXCEPT !.raised = TRUE]
    ELSE LET post_data == posts[i].data.v
             res       == GetMediaUrls(post_data)
         IN  IF PostId(post_data) \in acc.processed_posts THEN FilterPostsNoMark(posts, acc, i + 1)
             ELSE IF res.raised THEN [acc EXCEPT !.raised = TRUE]
             ELSE IF res.urls # <<>>
             THEN FilterPostsNoMark(posts,
                      [acc EXCEPT !.filtered = Append(@, posts[i]),
                                  !.total_urls = @ + Len(res.urls)],
                      i + 1)
             ELSE FilterPostsNoMark(posts, acc, i + 1)

RECURSIVE FilterPostsMarksAll(_, _, _)
\* FilterPosts with `self.processed_posts.add(post_id)` outside `if urls:`
FilterPostsMarksAll(posts, acc, i) ==
    IF i > Len(posts) \/ acc.raised THEN acc
    ELSE IF posts[i].data.k = "absent" THEN FilterPostsMarksAll(posts, acc, i + 1)
    ELSE IF posts[i].data.k = "null" THEN [acc EXCEPT !.raised = TRUE]
    ELSE LET post_data == posts[i].data.v
             res       == GetMediaUrls(post_data)
         IN  IF PostId(post_data) \in acc.processed_posts THEN FilterPostsMarksAll(posts, acc, i + 1)
             ELSE IF res.raised THEN [acc EXCEPT !.raised = TRUE]
             ELSE IF res.urls # <<>>
             THEN FilterPostsMarksAll(posts,
                      [acc EXCEPT !.filtered = Append(@, posts[i]),
                                  !.total_urls = @ + Len(res.urls),
                                  !.processed_posts = @ \cup {PostId(post_data)}],
                      i + 1)
             ELSE FilterPostsMarksAll(posts,
                      [acc EXCEPT !.processed_posts = @ \cup {PostId(post_data)}], i + 1)

RECURSIVE FilterPosts(_, _, _)
\* the loop `for post in posts` that filters out processed posts: the
\* result is [filtered, processed_posts, total_urls, raised]
FilterPosts(posts, acc, i) ==
    IF i > Len(posts) \/ acc.raised THEN acc
    ELSE IF posts[i].data.k = "absent" THEN FilterPosts(posts, acc, i + 1)
    ELSE IF posts[i].data.k = "null" THEN [acc EXCEPT !.raised = TRUE]
    ELSE LET post_data == posts[i].data.v
             post_id   == PostId(post_data)
             res       == GetMediaUrls(post_data)
         IN  IF post_id \in acc.processed_posts THEN FilterPosts(posts, acc, i + 1)
             ELSE IF res.raised THEN [acc EXCEPT !.raised = TRUE]
             ELSE IF res.urls # <<>>
             THEN FilterPosts(posts,
                      [acc EXCEPT !.filtered = Append(@, posts[i]),
                                  !.total_urls = @ + Len(res.urls),
                                  !.processed_posts = @ \cup {post_id}],
                      i + 1)
             ELSE FilterPosts(posts, acc, i + 1)

\* the download coroutine process_posts picks for a URL
Strategy(url) ==
    IF Contains(url, REDGIFS_COM) THEN "redgifs"
    ELSE IF Contains(url, V_REDD_IT) THEN "reddit_video"
    ELSE "file"

\* f"{name}_{idx + 1}{ext}" when the post has several URLs
IndexToken(n) == CASE n = 1 -> "_1" [] n = 2 -> "_2" [] n = 3 -> "_3" [] OTHER -> "_4"

\* TaskFilename without the index suffix
TaskFilenameUnindexed(post_data, urls, idx, style) ==
    GenerateFilename(post_data, urls[idx], style)

TaskFilename(post_data, urls, idx, style) ==
    LET base_filename == GenerateFilename(post_data, urls[idx], style)
        parts == Splitext(base_filename)
    IN  IF Len(urls) > 1 THEN parts[1] \o <<IndexToken(idx)>> \o parts[2]
        ELSE base_filename

\* the tasks appended for one post: one per URL not in processed_urls
PostTasks(post_data, style, purls) ==
    LET urls == GetMediaUrls(post_data).urls
        keep == {i \in 1..Len(urls) : urls[i] \notin purls}
        F[i \in 0..Len(urls)] ==
            IF i = 0 THEN <<>>
            ELSE IF i \in keep
            THEN Append(F[i - 1], [post_id  |-> PostId(post_data),
                                  url      |-> urls[i],
                                  filename |-> TaskFilename(post_data, urls, i, style),
                                  kind     |-> Strategy(urls[i])])
            ELSE F[i - 1]
    IN  F[Len(urls)]

RECURSIVE BuildTasks(_, _, _)
\* the loop `for post in filtered_posts` that builds the task list
BuildTasks(filtered, style, purls) ==
    IF filtered = <<>> THEN <<>>
    ELSE PostTasks(Head(filtered).data.v, style, purls) \o BuildTasks(Tail(filtered), style, purls)

\* ------------------------------------------------------------------------
\* The listings the model is run on
\* ------------------------------------------------------------------------

Https(host, rest) == <<"https", ":", "/", "/">> \o host \o rest

UrlCat == Https(<<"i", ".", "example">>, <<"/", "cat", ".", "jpg">>)

UrlDog == Https(<<"i", ".", "example">>, <<"/", "dog", ".", "jpg">>)

UrlVideo == Https(V_REDD_IT, <<"/", "x1">>)

UrlVideoFallback == Https(V_REDD_IT, <<"/", "x1", "/", "DASH_720", ".", "mp4", "?", "source", "=", "fallback">>)

UrlRedgifs == Https(<<"www", ".">> \o REDGIFS_COM, <<"/", "watch", "/", "gif1">>)

\* a RedGifs URL without a gif id
UrlRedgifsRoot == Https(<<"www", ".">> \o REDGIFS_COM, <<"/">>)

\* a RedGifs URL as the submitter typed it, the host in mixed case
UrlRedgifsMixedCase == Https(<<"www", ".", "RedGifs", ".", "com">>, <<"/", "watch", "/", "gif1">>)

\* an image URL whose path has no extension (the name is in the query)
UrlQuery == Https(<<"i", ".", "example">>, <<"/", "view", "?", "f", "=", "cat", ".", "jpg">>)

\* a link to a web page
UrlPage == Https(<<"news", ".", "example">>, <<"/", "story">>)

\* the fallback URL of a preview video
UrlPreview == Https(V_REDD_IT, <<"/", "x1", "/", "DASH_480", ".", "mp4">>)

\* the URL of a video file on a media host of RedGifs
UrlRedgifsMedia == Https(<<"thumbs", ".">> \o REDGIFS_COM, <<"/", "cat", ".", "mp4">>)

NoVideo == Absent

RedditVideo(fallback) == Val([reddit_video |-> Val([fallback_url |-> Val(fallback), hls_url |-> Absent])])

MkPost(id, title, domain, is_video, url, media) ==
    [id |-> Val(id), title |-> Val(title), domain |-> domain, is_video |-> is_video,
     url_overridden_by_dest |-> url, media |-> media, preview |-> Absent]

TitleCatPic == <<"C", "a", "t", " ", "P", "i", "c">>

\* the scenario post of the spec: only id, title and a direct image URL
PostCat == MkPost("abc", TitleCatPic, Absent, Absent, Val(UrlCat), NoVideo)

\* a cross-post of PostCat: another id, the same title and URL
PostCrossCat == MkPost("xyz", TitleCatPic, Absent, Absent, Val(UrlCat), NoVideo)

\* another post with PostCat's title and another URL
PostDog == MkPost("dog", TitleCatPic, Val("i.example"), Val(FALSE), Val(UrlDog), NoVideo)

\* a reddit-hosted video: the fallback URL and the v.redd.it URL
PostVideo == MkPost("vid", <<"C", "l", "i", "p">>, Val("v.redd.it"), Val(TRUE), Val(UrlVideo), RedditVideo(UrlVideoFallback))

PostRedgifs == MkPost("rg", <<"G", "i", "f">>, Val("redgifs.com"), Val(FALSE), Val(UrlRedgifs), NoVideo)

\* a self-text post: no media signal
PostText == MkPost("txt", <<"N", "o", "t", "e">>, Val("self.test"), Val(FALSE), Absent, NoVideo)

\* a v.redd.it link post without the media block
PostClip == MkPost("clip", <<"C", "l", "i", "p", "2">>, Val("v.redd.it"), Val(FALSE), Val(UrlVideo), NoVideo)

\* the listing names PostCat's id a second time, with another URL
PostCatAgain == MkPost("abc", <<"D", "o", "g">>, Absent, Absent, Val(UrlDog), NoVideo)

\* a RedGifs post whose URL has no gif id
PostRedgifsRoot == MkPost("rg0", <<"G", "i", "f", "0">>, Val("redgifs.com"), Val(FALSE), Val(UrlRedgifsRoot), NoVideo)

\* a RedGifs post whose URL has the host in mixed case
PostRedgifsMixedCase == MkPost("rgm", <<"G", "i", "f", "M">>, Val("redgifs.com"), Val(FALSE), Val(UrlRedgifsMixedCase), NoVideo)

\* an image post whose URL path has no extension
PostQuery == MkPost("qry", <<"V", "i", "e", "w">>, Val("i.example"), Val(FALSE), Val(UrlQuery), NoVideo)

Wrap(post) == [data |-> Val(post)]

\* the document json.load returns: a list, an object (with its 'data'
\* member: Absent, Null or Val([children |-> Absent or Val(posts)])), or a
\* scalar (string, number, true/false/null), of which only its truthiness
\* matters
JsonList(posts) == [k |-> "list", v |-> posts]

JsonDict(data) == [k |-> "dict", data |-> data]

JsonScalar(truthy) == [k |-> "scalar", truthy |-> truthy]

\* {"data": {"children": posts}}
Listing(posts) == JsonDict(Val([children |-> Val(posts)]))

\* None
JsonNone == JsonScalar(FALSE)

\* the local saved_data of run() before any assignment to it
Unbound == [k |-> "unbound"]

\* What one request of the saved-listing endpoint gives the pagination
\* loop of fetch_saved_posts_from_reddit: a failure (a status other than
\* 200, a page that looks blocked, text that is no JSON, an exception of
\* the request), a document without data.children, or the page
\* {"data": {"children": children, "after": after}}
Failure == [k |-> "fail", children |-> <<>>]

NoListing == [k |-> "nodata", children |-> <<>>]

Page(children, after) == [k |-> "page", children |-> children, after |-> after]

\* no request made yet
NoAnswer == [k |-> "none", children |-> <<>>]

\* `not saved_data` (an object of the model has members: the empty object
\* is turned away by the next test as well)
Falsy(saved) ==
    CASE saved.k = "list"   -> saved.v = <<>>
      [] saved.k = "scalar" -> ~saved.truthy
      [] OTHER              -> FALSE

\* saved_data.get('data', {}).get('children', []) of an object
Children(saved) ==
    IF saved.data.k = "val" /\ saved.data.v.children.k = "val"
    THEN saved.data.v.children.v
    ELSE <<>>

\* the posts process_posts iterates over (none for a scalar: it returns)
PostsOf(saved) ==
    CASE saved.k = "list" -> saved.v
      [] saved.k = "dict" -> Children(saved)
      [] OTHER            -> <<>>

\* the longest listing
MaxPosts == 2

\* a ledger file left in the output directory by an earlier use of it
\* (ids as post_data.get('id') gives them)
OldLedger == Val({Val("dog"), Val("old")})

\* The saved listings, with the --concurrent and --style values each is run
\* under, the ledger file the output directory holds before the first run,
\* and the shape the listing has as a document of --input; the model is run
\* on every prefix of at most MaxPosts posts
SavedListings ==
    { [posts |-> <<PostCat, PostCrossCat, PostText>>, limits |-> {1, 5}, styles |-> {"basic", "pretty"}, shape |-> "dict", ledgers |-> {Absent}],
      [posts |-> <<PostCat, PostDog, PostCatAgain>>, limits |-> {5},    styles |-> {"pretty"}, shape |-> "list", ledgers |-> {Absent}],
      [posts |-> <<PostText, PostVideo, PostText>>,  limits |-> {1},    styles |-> {"basic"}, shape |-> "list", ledgers |-> {Absent}],
      [posts |-> <<PostRedgifs, PostCat, PostText>>, limits |-> {1, 5}, styles |-> {"basic"}, shape |-> "dict", ledgers |-> {Absent}],
      [posts |-> <<PostClip, PostDog, PostClip>>,    limits |-> {2},    styles |-> {"pretty"}, shape |-> "list", ledgers |-> {Absent}],
      [posts |-> <<PostRedgifsRoot, PostQuery, PostText>>, limits |-> {2}, styles |-> {"basic"}, shape |-> "list", ledgers |-> {Absent}],
      [posts |-> <<PostRedgifsMixedCase, PostText>>, limits |-> {5}, styles |-> {"basic"}, shape |-> "list", ledgers |-> {Absent}],
      [posts |-> <<PostDog, PostCat, PostText>>,     limits |-> {5}, styles |-> {"basic"}, shape |-> "dict", ledgers |-> {OldLedger}] }

Prefixes(posts) ==
    {[i \in 1..n |-> Wrap(posts[i])] :
        n \in 1..(IF Len(posts) < MaxPosts THEN Len(posts) ELSE MaxPosts)}

\* the documents of a saved listing, in the shape it is stored in
Documents(m) ==
    {IF m.shape = "list" THEN JsonList(posts) ELSE Listing(posts) : posts \in Prefixes(m.posts)}

\* documents that hold no listing
MalformedDocuments ==
    { JsonScalar(TRUE), JsonScalar(FALSE), JsonList(<<>>),
      JsonDict(Absent), JsonDict(Null),
      JsonDict(Val([children |-> Absent])), JsonDict(Val([children |-> Val(<<>>)])) }

\* the values a member of a post can have in the planning specification
Domains == {Absent, Null, Val("redgifs.com"), Val("i.example")}

IsVideos == {Absent, Null, Val(TRUE), Val(FALSE)}

Urls == {Absent, Null, Val(UrlCat), Val(UrlVideo), Val(UrlPage), Val(UrlRedgifs), Val(UrlRedgifsMedia)}

Medias ==
    { Absent, Null, Val([reddit_video |-> Absent]), Val([reddit_video |-> Null]),
      RedditVideo(UrlVideoFallback) }

Previews ==
    { Absent, Null, Val([reddit_video_preview |-> Absent]), Val([reddit_video_preview |-> Null]),
      Val([reddit_video_preview |-> Val([fallback_url |-> Val(UrlPreview)])]) }

\* one post for every combination of absent, null and present optional
\* members
PostShapes ==
    { [id |-> Val("abc"), title |-> Val(TitleCatPic), domain |-> d, is_video |-> v,
       url_overridden_by_dest |-> u, media |-> m, preview |-> p] :
        d \in Domains, v \in IsVideos, u \in Urls, m \in Medias, p \in Previews }

\* the values of --style
Styles == {"basic", "pretty", "advanced"}

\* ------------------------------------------------------------------------
\* State
\* ------------------------------------------------------------------------

VARIABLES
    max_concurrent,      \* self.max_concurrent (--concurrent)
    filename_style,      \* self.filename_style (--style)
    args_input,          \* TRUE: --input is given; FALSE: --reddit-session is
    input_data,          \* saved_data of main: the document json.load returned
                         \* (--input), None with --reddit-session
    username,            \* what the session cookie gives as user name: "me" or
                         \* "none" (None)
    server,              \* the answers the saved-listing endpoint can give
    saved_data,          \* saved_data of run(), the argument of process_posts:
                         \* Unbound until fetch_saved_posts_from_reddit returned
    all_posts,           \* fetch_saved_posts_from_reddit: the posts collected
    seen_post_ids,       \* the post ids seen
    after,               \* the cursor of the next request
    consecutive_duplicates, \* pages in a row without a new post id
    data,                \* the answer to the last request
    run,                 \* which run of the program this is (1, 2, ...)
    phase,               \* "start": main reads the input; "idle": run() not
                         \* yet started; "paging": in the loop of
                         \* fetch_saved_posts_from_reddit; "fetched":
                         \* process_posts about to be called; "fetch": inside
                         \* asyncio.gather;
                         \* "done": process_posts returned; "crashed": an
                         \* exception left main; "exited": sys.exit or
                         \* os._exit; "shutdown": SystemExit is unwinding
                         \* asyncio.run
    exit_code,           \* the exit status of the process, NotExited before
    shutdown_in_progress, \* the global flag signal_handler sets
    ledger_file,         \* .processed_posts.json: Absent or Val(set of post ids)
    loaded_posts,        \* what _load_processed_posts returned in this run
    processed_posts,     \* self.processed_posts
    processed_urls,      \* self.processed_urls
    download_semaphore,  \* free slots of self.download_semaphore
    tasks,               \* the coroutines handed to asyncio.gather
    pc,                  \* per task: where its coroutine is suspended
    retry_count,         \* per task: retry_count of its innermost frame
    held,                \* per task: slots held by its nested `async with` frames
    format_idx,          \* per task: format_idx of the yt-dlp loop
    fd,                  \* per task: where the inode of its open temp file is
    outcome,             \* per task: its terminal outcome, "none" before
    fetches,             \* per task: session.get(url) byte fetches issued
    files,               \* the output directory: path -> [size, whole]
    total_urls,          \* total of the progress bar
    advanced,            \* advance=1 events the progress bar received
    delays               \* the backoff delays one coroutine has slept, in
                         \* the order of its retries (in units of 2^-MantissaBits s)

config == <<max_concurrent, filename_style, args_input, input_data, username, server>>

fetcher == <<saved_data, all_posts, seen_post_ids, after, consecutive_duplicates, data>>

ledger == <<ledger_file, loaded_posts, processed_posts>>

sched == <<pc, retry_count, held, format_idx, outcome, fetches, download_semaphore>>

disk == <<files, fd>>

process == <<run, phase, exit_code, shutdown_in_progress>>

vars == <<config, delays, fetcher, process, ledger, processed_urls, tasks, sched, disk, total_urls, advanced>>

\* the process is still running
NotExited == -1

\* self.max_retries
max_retries == 3

\* the size below which _file_exists_and_valid rejects a file
MinValidSize == 1024

\* len(format_options)
NumFormats == 4

\* sizes in bytes of the response bodies a server sends
BodySizes == {512, 2048}

\* sizes in bytes of the files yt-dlp writes
VideoSizes == {2048}

\* sizes in bytes of a file found in the output directory at the first run
StaleSizes == {500, 2000}

\* the number of runs of the program on the same listing and directory
MaxRuns == 2

TaskIds == 1..Len(tasks)

\* ------------------------------------------------------------------------
\* The output directory
\* ------------------------------------------------------------------------

\* the destination of a task and its temporary sibling f"{filename}.tmp"
Dest(t) == Join(tasks[t].filename)

Tmp(t) == Join(tasks[t].filename \o <<".tmp">>)

\* os.path.exists(p)
Exists(p) == p \in DOMAIN files

\* _file_exists_and_valid with the size comparison the wrong way round
FileExistsAndValidInverted(p) == Exists(p) /\ files[p].size < MinValidSize

\* _file_exists_and_valid(filepath)
FileExistsAndValid(p) == Exists(p) /\ ~(files[p].size < MinValidSize)

\* os.path.join(self.output_dir, ''): the output directory itself, which
\* __init__ and process_posts create
OutputDirPath == Join(OutputDir \o <<"/">>)

\* os.path.getsize of the output directory (one block)
DirSize == 4096

\* os.path.exists(filepath) and os.path.getsize(filepath) > 0
NonEmptyFile(p) ==
    IF p = OutputDirPath THEN DirSize > 0
    ELSE Exists(p) /\ files[p].size > 0

EmptyFile == [size |-> 0, whole |-> FALSE]

\* the directory after p was created or replaced with content c
WithFile(fs, p, c) == [q \in DOMAIN fs \cup {p} |-> IF q = p THEN c ELSE fs[q]]

\* the directory after os.rename(src, dst)
Renamed(fs, src, dst) ==
    [q \in (DOMAIN fs \cup {dst}) \ {src} |-> IF q = dst THEN fs[src] ELSE fs[q]]

\* a write of a body of s bytes at offset 0 of a file holding c: a longer
\* old content keeps its tail behind the new bytes
Written(c, s) ==
    IF c.size <= s THEN [size |-> s, whole |-> TRUE]
    ELSE [size |-> c.size, whole |-> FALSE]

\* the open descriptors after the file at a task's destination was replaced:
\* descriptors of the temp inode now name the destination when the temp file
\* was renamed there, those of the old destination inode name nothing
AfterReplace(t, moved) ==
    [u \in TaskIds |->
        IF u = t THEN "closed"
        ELSE IF tasks[u].filename # tasks[t].filename THEN fd[u]
        ELSE IF fd[u] = "tmp" /\ moved THEN "dest"
        ELSE IF fd[u] = "dest" THEN "orphan"
        ELSE fd[u]]

\* ------------------------------------------------------------------------
\* process_posts
\* ------------------------------------------------------------------------

\* main, from json.load to the construction of the downloader.  With
\* --input: a falsy document, an empty list and an object without
\* data.children end the process with sys.exit(1); an object whose 'data'
\* is null raises at .get('children') and the exception leaves main.  With
\* --reddit-session: the cookie string is built.
ValidateInput ==
    /\ phase = "start"
    /\ IF ~args_input
       THEN phase' = "idle" /\ UNCHANGED exit_code
       ELSE IF Falsy(input_data) \/ (input_data.k = "dict" /\ input_data.data.k # "null"
                                                         /\ Children(input_data) = <<>>)
       THEN phase' = "exited" /\ exit_code' = 1
       ELSE IF input_data.k = "dict" /\ input_data.data.k = "null"
       THEN phase' = "crashed" /\ exit_code' = 1
       ELSE phase' = "idle" /\ UNCHANGED exit_code
    /\ UNCHANGED <<config, delays, fetcher, run, shutdown_in_progress, ledger, processed_urls, tasks, sched, disk, total_urls, advanced>>

\* run() as it would be with `nonlocal saved_data`: with --input,
\* process_posts is called with the document main has read
RunReadsInputData ==
    /\ phase = "idle"
    /\ args_input
    /\ saved_data' = input_data
    /\ phase' = "fetched"
    /\ UNCHANGED <<config, delays, all_posts, seen_post_ids, after, consecutive_duplicates, data,
                   run, exit_code, shutdown_in_progress, ledger, processed_urls, tasks, sched,
                   disk, total_urls, advanced>>

\* the first step of run().  The assignment at line 902 makes saved_data a
\* local variable of run(): with --input nothing is assigned to it, so the
\* call process_posts(saved_data) at line 908 raises UnboundLocalError and
\* the exception leaves asyncio.run and main (exit status 1).  With
\* --reddit-session, fetch_saved_posts_from_reddit is entered: without a
\* user name it returns None and run() returns; else its loop begins.
Run ==
    /\ phase = "idle"
    /\ IF args_input
       THEN /\ phase' = "crashed"
            /\ exit_code' = 1
            /\ UNCHANGED fetcher
       ELSE IF username = "none"
       THEN /\ saved_data' = JsonNone
            /\ phase' = "done"
            /\ exit_code' = 0
            /\ UNCHANGED <<all_posts, seen_post_ids, after, consecutive_duplicates, data>>
       ELSE /\ phase' = "paging"
            /\ all_posts' = <<>>
            /\ seen_post_ids' = {}
            /\ after' = Null
            /\ consecutive_duplicates' = 0
            /\ UNCHANGED <<saved_data, data, exit_code>>
    /\ UNCHANGED <<config, delays, run, shutdown_in_progress, ledger, processed_urls, tasks, sched,
                   disk, total_urls, advanced>>

\* ------------------------------------------------------------------------
\* fetch_saved_posts_from_reddit
\* ------------------------------------------------------------------------

max_consecutive_duplicates == 3

\* post['data']['id'] raises for a wrapper without a 'data' object and for a
\* post without 'id'
IdRaises(w) == w.data.k # "val" \/ w.data.v.id.k = "absent"

RECURSIVE ScanPage(_, _, _)
\* the loop `for post in posts` over the posts of one page: the result is
\* [seen, new_posts, duplicate_count, raised]
ScanPage(posts, acc, i) ==
    IF i > Len(posts) \/ acc.raised THEN acc
    ELSE IF IdRaises(posts[i]) THEN [acc EXCEPT !.raised = TRUE]
    ELSE LET post_id == posts[i].data.v.id
         IN  IF post_id \in acc.seen
             THEN ScanPage(posts, [acc EXCEPT !.duplicate_count = @ + 1], i + 1)
             ELSE ScanPage(posts, [acc EXCEPT !.seen = @ \cup {post_id},
                                              !.new_posts = Append(@, posts[i])], i + 1)

\* the end of fetch_saved_posts_from_reddit after the loop: the listing
\* {"kind": "Listing", "data": {"children": all_posts, ...}} is returned
\* (and written to saved.json in the working directory), or None when no
\* post was collected, and then run() returns
Returns(posts) ==
    IF posts # <<>>
    THEN /\ saved_data' = Listing(posts)
         /\ phase' = "fetched"
         /\ UNCHANGED exit_code
    ELSE /\ saved_data' = JsonNone
         /\ phase' = "done"
         /\ exit_code' = 0

\* a loop that gives up at the first page without a new post
AnyDuplicates(count) == count >= 1

\* consecutive_duplicates >= max_consecutive_duplicates
TooManyDuplicates(count) == count >= max_consecutive_duplicates

\* a counter that is never incremented
ForgetDuplicatePage(count) == 0

\* consecutive_duplicates += 1
CountDuplicatePage(count) == count + 1

\* one pass of the loop `while True`: the request, and the answer resp
LoopPass(resp) ==
    LET scan == ScanPage(resp.children,
                         [seen |-> seen_post_ids, new_posts |-> <<>>,
                          duplicate_count |-> 0, raised |-> FALSE], 1)
        all_duplicates == scan.duplicate_count = Len(resp.children)
    IN  /\ data' = resp
        /\ IF resp.k # "page" \/ resp.children = <<>>
           THEN \* a failed request, 'No more posts found', 'No posts in response'
                /\ Returns(all_posts)
                /\ UNCHANGED <<all_posts, seen_post_ids, after, consecutive_duplicates>>
           ELSE IF scan.raised
           THEN \* the exception is caught after the loop over the page: break
                /\ seen_post_ids' = scan.seen
                /\ Returns(all_posts)
                /\ UNCHANGED <<all_posts, after, consecutive_duplicates>>
           ELSE IF all_duplicates
           THEN /\ seen_post_ids' = scan.seen
                /\ consecutive_duplicates' = CountDuplicatePage(consecutive_duplicates)
                /\ UNCHANGED all_posts
                /\ IF TooManyDuplicates(CountDuplicatePage(consecutive_duplicates))
                   THEN Returns(all_posts) /\ UNCHANGED after
                   ELSE /\ after' = Get(resp.after)
                        /\ IF TruthyStr(Get(resp.after))
                           THEN UNCHANGED <<saved_data, phase, exit_code>>
                           ELSE Returns(all_posts)
           ELSE /\ seen_post_ids' = scan.seen
                /\ consecutive_duplicates' = 0
                /\ all_posts' = all_posts \o scan.new_posts
                /\ after' = Get(resp.after)
                /\ IF TruthyStr(Get(resp.after))
                   THEN UNCHANGED <<saved_data, phase, exit_code>>
                   ELSE Returns(all_posts \o scan.new_posts)

\* a request of the pagination loop is answered
FetchPage ==
    /\ phase = "paging"
    /\ \E resp \in server : LoopPass(resp)
    /\ UNCHANGED <<config, delays, run, shutdown_in_progress, ledger, processed_urls, tasks, sched,
                   disk, total_urls, advanced>>

\* _load_processed_posts(): set(json.load(f)), the empty set without a file
LoadProcessedPosts(file) == IF file.k = "val" THEN file.v ELSE {}

\* a ledger that keeps only the ids added in this run
SaveNewPosts(posts) == Val(posts \ loaded_posts)

\* _save_processed_posts(): json.dump(list(self.processed_posts), f)
SaveProcessedPosts(posts) == Val(posts)

NoTasks == <<>>

\* process_posts up to `await asyncio.gather(*tasks)`: one step of the event
\* loop (there is no await in it)
ProcessPosts ==
    /\ phase = "fetched"
    /\ LET loaded == LoadProcessedPosts(ledger_file)
           f == FilterPosts(Reverse(PostsOf(saved_data)),
                            [filtered |-> <<>>, processed_posts |-> loaded,
                             total_urls |-> 0, raised |-> FALSE], 1)
           ts == BuildTasks(f.filtered, filename_style, processed_urls)
       IN  /\ loaded_posts' = loaded
           /\ processed_posts' = f.processed_posts
           /\ IF f.raised
              THEN \* the exception leaves process_posts, run() and main
                   /\ phase' = "crashed"
                   /\ exit_code' = 1
                   /\ UNCHANGED <<tasks, sched, fd, total_urls>>
              ELSE IF saved_data.k = "scalar" \/ f.filtered = <<>>
              THEN \* "Invalid saved_data format", or new_posts_count == 0:
                   \* return, and main ends normally
                   /\ phase' = "done"
                   /\ exit_code' = 0
                   /\ UNCHANGED <<tasks, sched, fd, total_urls>>
              ELSE /\ phase' = "fetch"
                   /\ UNCHANGED exit_code
                   /\ tasks' = ts
                   /\ total_urls' = f.total_urls
                   /\ pc' = [t \in 1..Len(ts) |-> "new"]
                   /\ retry_count' = [t \in 1..Len(ts) |-> 0]
                   /\ held' = [t \in 1..Len(ts) |-> 0]
                   /\ format_idx' = [t \in 1..Len(ts) |-> 0]
                   /\ fd' = [t \in 1..Len(ts) |-> "closed"]
                   /\ outcome' = [t \in 1..Len(ts) |-> "none"]
                   /\ fetches' = [t \in 1..Len(ts) |-> 0]
                   /\ UNCHANGED download_semaphore
    /\ UNCHANGED <<config, delays, fetcher, run, shutdown_in_progress, ledger_file, processed_urls, files, advanced>>

\* a gather that a failed task ends at once
GatherEndsOnFailure ==
    \/ \A t \in TaskIds : pc[t] = "done"
    \/ \E t \in TaskIds : outcome[t] = "FailedTerminal"

\* asyncio.gather returns when every task has returned
GatherDone == \A t \in TaskIds : pc[t] = "done"

\* a ledger saved as soon as one task has returned, while others run
SaveLedgerEarly ==
    /\ phase = "fetch"
    /\ \E t \in TaskIds : pc[t] = "done"
    /\ ledger_file' = SaveProcessedPosts(processed_posts)
    /\ UNCHANGED <<config, delays, fetcher, process, loaded_posts, processed_posts, processed_urls, tasks,
                   sched, disk, total_urls, advanced>>

\* the end of process_posts: gather returned, the ledger is saved
SaveLedger ==
    /\ phase = "fetch"
    /\ GatherDone
    /\ ledger_file' = SaveProcessedPosts(processed_posts)
    /\ phase' = "done"
    /\ exit_code' = 0
    /\ UNCHANGED <<config, delays, fetcher, run, shutdown_in_progress, loaded_posts, processed_posts, processed_urls, tasks,
                   sched, disk, total_urls, advanced>>

\* the program is started again on the same listing and output directory:
\* __init__ and init_session of a new process
NextRun ==
    /\ phase = "done"
    /\ run < MaxRuns
    /\ run' = run + 1
    /\ phase' = "start"
    /\ exit_code' = NotExited
    /\ shutdown_in_progress' = FALSE
    /\ processed_posts' = {}
    /\ loaded_posts' = {}
    /\ processed_urls' = {}
    /\ download_semaphore' = max_concurrent
    /\ tasks' = NoTasks
    /\ pc' = <<>> /\ retry_count' = <<>> /\ held' = <<>> /\ format_idx' = <<>>
    /\ outcome' = <<>> /\ fetches' = <<>> /\ fd' = <<>>
    /\ total_urls' = 0
    /\ advanced' = 0
    /\ saved_data' = Unbound
    /\ all_posts' = <<>>
    /\ seen_post_ids' = {}
    /\ after' = Null
    /\ consecutive_duplicates' = 0
    /\ data' = NoAnswer
    /\ UNCHANGED <<config, delays, ledger_file, files>>

\* ------------------------------------------------------------------------
\* _download_file_with_retry
\* ------------------------------------------------------------------------

\* the URL _download_file is called with: the candidate URL, or for a
\* RedGifs task the URL the metadata call returned
FetchUrl(t) ==
    IF tasks[t].kind = "redgifs" THEN RedgifsVideoUrl(ExtractRedgifsId(tasks[t].url))
    ELSE tasks[t].url

\* every coroutine of gather has run its first step: the event loop runs
\* the ready callbacks before it looks at any completed I/O
AllLaunched == \A t \in TaskIds : pc[t] # "new"

\* task t is next in gather's order
NextToLaunch(t) == pc[t] = "new" /\ \A u \in 1..(t - 1) : pc[u] # "new"

\* End without progress.update on the two skip paths
EndSkipsUnreported(t, o) ==
    /\ pc' = [pc EXCEPT ![t] = "done"]
    /\ outcome' = [outcome EXCEPT ![t] = o]
    /\ download_semaphore' = download_semaphore + held[t]
    /\ held' = [held EXCEPT ![t] = 0]
    /\ advanced' = IF o \in {"SkippedAlreadyPresent", "SkippedAlreadyProcessed"}
                   THEN advanced ELSE advanced + 1

\* the coroutine of task t returns with outcome o: progress.update, and
\* every `async with self.download_semaphore` frame of the task unwinds
End(t, o) ==
    /\ pc' = [pc EXCEPT ![t] = "done"]
    /\ outcome' = [outcome EXCEPT ![t] = o]
    /\ download_semaphore' = download_semaphore + held[t]
    /\ held' = [held EXCEPT ![t] = 0]
    /\ advanced' = advanced + 1

\* `async with self.download_semaphore` entered, session.get(url) issued
Acquired(t) ==
    /\ download_semaphore' = download_semaphore - 1
    /\ held' = [held EXCEPT ![t] = @ + 1]
    /\ pc' = [pc EXCEPT ![t] = "get"]
    /\ fetches' = [fetches EXCEPT ![t] = @ + 1]
    /\ UNCHANGED <<outcome, advanced>>

\* _download_file_with_retry(url, filename, task_id, rc) up to its first
\* await
EnterPipeline(t, rc) ==
    /\ retry_count' = [retry_count EXCEPT ![t] = rc]
    /\ IF FetchUrl(t) \in processed_urls
       THEN /\ End(t, "SkippedAlreadyProcessed")
            /\ UNCHANGED <<processed_urls, fetches>>
       ELSE IF FileExistsAndValid(Dest(t))
       THEN /\ processed_urls' = processed_urls \cup {FetchUrl(t)}
            /\ End(t, "SkippedAlreadyPresent")
            /\ UNCHANGED fetches
       ELSE IF download_semaphore > 0
       THEN /\ Acquired(t)
            /\ UNCHANGED processed_urls
       ELSE /\ pc' = [pc EXCEPT ![t] = "wait"]
            /\ UNCHANGED <<processed_urls, outcome, download_semaphore, held, advanced, fetches>>
    /\ UNCHANGED <<config, delays, fetcher, process, ledger, tasks, format_idx, disk, total_urls>>

\* the first step of a _download_file coroutine
LaunchFile(t) ==
    /\ phase = "fetch"
    /\ tasks[t].kind = "file"
    /\ NextToLaunch(t)
    /\ EnterPipeline(t, 0)

\* a coroutine blocked in `async with self.download_semaphore` gets a slot
AcquireSlot(t) ==
    /\ phase = "fetch" /\ AllLaunched
    /\ pc[t] = "wait"
    /\ download_semaphore > 0
    /\ Acquired(t)
    /\ UNCHANGED <<config, delays, fetcher, process, ledger, processed_urls, tasks, retry_count,
                   format_idx, disk, total_urls>>

\* a retryable failure: sleep and recurse while retry_count < max_retries,
\* else give up (the frame's slot stays held during the sleep and the
\* recursive call: both are inside the `async with` block)
RetryOrFail(t) ==
    IF retry_count[t] < max_retries
    THEN /\ pc' = [pc EXCEPT ![t] = "sleep"]
         /\ UNCHANGED <<outcome, download_semaphore, held, advanced>>
    ELSE End(t, "FailedTerminal")

\* response.status == 200 and aiofiles.open(temp_filename, 'wb'): the temp
\* file is created, or the one that is there is truncated
Status200(t) ==
    /\ phase = "fetch" /\ AllLaunched
    /\ pc[t] = "get"
    /\ files' = WithFile(files, Tmp(t), EmptyFile)
    /\ fd' = [fd EXCEPT ![t] = "tmp"]
    /\ pc' = [pc EXCEPT ![t] = "read"]
    /\ UNCHANGED <<config, delays, fetcher, process, ledger, processed_urls, tasks, retry_count, held,
                   format_idx, outcome, fetches, download_semaphore, total_urls, advanced>>

\* response.status == 429
Status429(t) ==
    /\ phase = "fetch" /\ AllLaunched
    /\ pc[t] = "get"
    /\ RetryOrFail(t)
    /\ UNCHANGED <<config, delays, fetcher, process, ledger, processed_urls, tasks, retry_count,
                   format_idx, fetches, disk, total_urls>>

\* any other status, handled like a 429
StatusOtherRetries(t) ==
    /\ phase = "fetch" /\ AllLaunched
    /\ pc[t] = "get"
    /\ RetryOrFail(t)
    /\ UNCHANGED <<config, delays, fetcher, process, ledger, processed_urls, tasks, retry_count,
                   format_idx, fetches, disk, total_urls>>

\* any other status
StatusOther(t) ==
    /\ phase = "fetch" /\ AllLaunched
    /\ pc[t] = "get"
    /\ End(t, "FailedTerminal")
    /\ UNCHANGED <<config, delays, fetcher, process, ledger, processed_urls, tasks, retry_count,
                   format_idx, fetches, disk, total_urls>>

\* session.get raises (transport error)
TransportError(t) ==
    /\ phase = "fetch" /\ AllLaunched
    /\ pc[t] = "get"
    /\ RetryOrFail(t)
    /\ UNCHANGED <<config, delays, fetcher, process, ledger, processed_urls, tasks, retry_count,
                   format_idx, fetches, disk, total_urls>>

\* await response.read() returns the whole body and f.write(body) puts it
\* at offset 0 of the inode the descriptor names
ReadBody(t) ==
    /\ phase = "fetch" /\ AllLaunched
    /\ pc[t] = "read"
    /\ \E s \in BodySizes :
          files' = CASE fd[t] = "tmp"  -> WithFile(files, Tmp(t), Written(files[Tmp(t)], s))
                     [] fd[t] = "dest" -> WithFile(files, Dest(t), Written(files[Dest(t)], s))
                     [] OTHER          -> files
    /\ pc' = [pc EXCEPT ![t] = "close"]
    /\ UNCHANGED <<config, delays, fetcher, process, ledger, processed_urls, tasks, retry_count, held,
                   format_idx, outcome, fetches, download_semaphore, fd, total_urls, advanced>>

\* await response.read() raises: the file is closed, the handler retries
ReadFails(t) ==
    /\ phase = "fetch" /\ AllLaunched
    /\ pc[t] = "read"
    /\ fd' = [fd EXCEPT ![t] = "closed"]
    /\ RetryOrFail(t)
    /\ UNCHANGED <<config, delays, fetcher, process, ledger, processed_urls, tasks, retry_count,
                   format_idx, fetches, files, total_urls>>

\* the file is closed; os.rename(temp_filename, filename), the URL is
\* recorded and the coroutine returns True, or os.rename raises
\* FileNotFoundError (the temp file is gone, or filename is '') and the
\* handler retries
CloseRename(t) ==
    /\ phase = "fetch" /\ AllLaunched
    /\ pc[t] = "close"
    /\ IF Exists(Tmp(t)) /\ Dest(t) # ""
       THEN /\ files' = Renamed(files, Tmp(t), Dest(t))
            /\ fd' = AfterReplace(t, TRUE)
            /\ processed_urls' = processed_urls \cup {FetchUrl(t)}
            /\ End(t, "Success")
       ELSE /\ fd' = [fd EXCEPT ![t] = "closed"]
            /\ RetryOrFail(t)
            /\ UNCHANGED <<files, processed_urls>>
    /\ UNCHANGED <<config, delays, fetcher, process, ledger, tasks, retry_count, format_idx, fetches,
                   total_urls>>

\* ------------------------------------------------------------------------
\* _download_reddit_video_with_retry
\* ------------------------------------------------------------------------

\* filepath = os.path.join(self.output_dir, filename)
VideoPath(t) == Join(JoinOutputDir(tasks[t].filename))

\* _download_reddit_video_with_retry(url, filename, task_id, rc) up to the
\* first ydl.download call; no `async with self.download_semaphore` here
EnterVideo(t, rc) ==
    /\ retry_count' = [retry_count EXCEPT ![t] = rc]
    /\ IF NonEmptyFile(VideoPath(t))
       THEN /\ End(t, "SkippedAlreadyPresent")
            /\ UNCHANGED <<format_idx, fetches>>
       ELSE /\ pc' = [pc EXCEPT ![t] = "ytdlp"]
            /\ format_idx' = [format_idx EXCEPT ![t] = 0]
            /\ UNCHANGED <<outcome, download_semaphore, held, advanced, fetches>>
    /\ UNCHANGED <<config, delays, fetcher, process, ledger, processed_urls, tasks, disk, total_urls>>

\* the first step of a _download_reddit_video coroutine
LaunchVideo(t) ==
    /\ phase = "fetch"
    /\ tasks[t].kind = "reddit_video"
    /\ NextToLaunch(t)
    /\ EnterVideo(t, 0)

\* a loop that gives up at the first selector that fails
NextFormatGivesUp(t) ==
    /\ End(t, "FailedTerminal")
    /\ UNCHANGED <<format_idx, fetches>>

\* the loop `for format_idx, format_selector in enumerate(format_options)`
\* goes on with the next selector, or ends the task after the last one
NextFormat(t) ==
    IF format_idx[t] < NumFormats - 1
    THEN /\ format_idx' = [format_idx EXCEPT ![t] = @ + 1]
         /\ UNCHANGED <<pc, outcome, download_semaphore, held, advanced, fetches>>
    ELSE /\ End(t, "FailedTerminal")
         /\ UNCHANGED <<format_idx, fetches>>

\* ydl.download returns without raising, having written the file or not;
\* the task succeeds when the file at filepath is not empty
YtdlpReturns(t) ==
    /\ phase = "fetch" /\ AllLaunched
    /\ pc[t] = "ytdlp"
    /\ \/ \E s \in VideoSizes :
             /\ files' = WithFile(files, VideoPath(t), [size |-> s, whole |-> TRUE])
             /\ fd' = AfterReplace(t, FALSE)
          \/ UNCHANGED <<files, fd>>
    /\ IF VideoPath(t) \in DOMAIN files' /\ files'[VideoPath(t)].size > 0
       THEN /\ End(t, "Success")
            /\ UNCHANGED <<format_idx, fetches>>
       ELSE NextFormat(t)
    /\ UNCHANGED <<config, delays, fetcher, process, ledger, processed_urls, tasks, retry_count, total_urls>>

\* yt_dlp.DownloadError other than a rate limit ('requested format is not
\* available', 'no video formats found', or anything else): next selector
YtdlpDownloadError(t) ==
    /\ phase = "fetch" /\ AllLaunched
    /\ pc[t] = "ytdlp"
    /\ NextFormat(t)
    /\ UNCHANGED <<config, delays, fetcher, process, ledger, processed_urls, tasks, retry_count, disk, total_urls>>

\* yt_dlp.DownloadError with '429' or 'rate limit' in its message
YtdlpRateLimited(t) ==
    /\ phase = "fetch" /\ AllLaunched
    /\ pc[t] = "ytdlp"
    /\ RetryOrFail(t)
    /\ UNCHANGED <<config, delays, fetcher, process, ledger, processed_urls, tasks, retry_count,
                   format_idx, fetches, disk, total_urls>>

\* any other exception out of the yt-dlp call
YtdlpException(t) ==
    /\ phase = "fetch" /\ AllLaunched
    /\ pc[t] = "ytdlp"
    /\ RetryOrFail(t)
    /\ UNCHANGED <<config, delays, fetcher, process, ledger, processed_urls, tasks, retry_count,
                   format_idx, fetches, disk, total_urls>>

\* asyncio.sleep(delay) is over: the recursive call with retry_count + 1
Wake(t) ==
    /\ phase = "fetch" /\ AllLaunched
    /\ pc[t] = "sleep"
    /\ IF tasks[t].kind = "reddit_video"
       THEN EnterVideo(t, retry_count[t] + 1)
       ELSE EnterPipeline(t, retry_count[t] + 1)

\* ------------------------------------------------------------------------
\* _download_redgifs_video
\* ------------------------------------------------------------------------

\* the first step of a _download_redgifs_video coroutine: the id is
\* extracted and the token request issued, or the ValueError is caught
LaunchRedgifs(t) ==
    /\ phase = "fetch"
    /\ tasks[t].kind = "redgifs"
    /\ NextToLaunch(t)
    /\ IF ExtractRedgifsId(tasks[t].url) = <<>>
       THEN End(t, "FailedTerminal")
       ELSE /\ pc' = [pc EXCEPT ![t] = "token"]
            /\ UNCHANGED <<outcome, download_semaphore, held, advanced>>
    /\ UNCHANGED <<config, delays, fetcher, process, ledger, processed_urls, tasks, retry_count,
                   format_idx, fetches, disk, total_urls>>

\* _get_redgifs_token: status 200, the metadata request is issued
TokenOk(t) ==
    /\ phase = "fetch" /\ AllLaunched
    /\ pc[t] = "token"
    /\ pc' = [pc EXCEPT ![t] = "meta"]
    /\ UNCHANGED <<config, delays, fetcher, process, ledger, processed_urls, tasks, retry_count, held,
                   format_idx, outcome, fetches, download_semaphore, disk, total_urls, advanced>>

\* a token failure handled like a failed byte fetch: backoff and retry
TokenFailsThenRetries(t) ==
    /\ phase = "fetch" /\ AllLaunched
    /\ pc[t] = "token"
    /\ RetryOrFail(t)
    /\ UNCHANGED <<config, delays, fetcher, process, ledger, processed_urls, tasks, retry_count,
                   format_idx, fetches, disk, total_urls>>

\* _get_redgifs_token raises (status other than 200, transport error)
TokenFails(t) ==
    /\ phase = "fetch" /\ AllLaunched
    /\ pc[t] = "token"
    /\ End(t, "FailedTerminal")
    /\ UNCHANGED <<config, delays, fetcher, process, ledger, processed_urls, tasks, retry_count,
                   format_idx, fetches, disk, total_urls>>

\* _get_redgifs_video_url returns a URL: _download_file(video_url, ...)
MetaOk(t) ==
    /\ phase = "fetch" /\ AllLaunched
    /\ pc[t] = "meta"
    /\ EnterPipeline(t, 0)

\* _get_redgifs_video_url raises (status other than 200, no quality listed)
MetaFails(t) ==
    /\ phase = "fetch" /\ AllLaunched
    /\ pc[t] = "meta"
    /\ End(t, "FailedTerminal")
    /\ UNCHANGED <<config, delays, fetcher, process, ledger, processed_urls, tasks, retry_count,
                   format_idx, fetches, disk, total_urls>>

\* ------------------------------------------------------------------------
\* signal_handler
\* ------------------------------------------------------------------------

\* The first SIGINT or SIGTERM while process_posts awaits gather: the
\* handler sets the flag, starts the force_quit timer and calls sys.exit(0).
\* SystemExit leaves the event loop, and asyncio.run cancels every task
\* that has not returned: CancelledError is no Exception, so no handler of
\* the download coroutines catches it; their `async with` blocks unwind
\* (slots released, files closed, the temp file left as it is), gather is
\* cancelled and process_posts never reaches _save_processed_posts.  A
\* yt-dlp call goes on in its executor thread ("thread").
Interrupt ==
    /\ phase = "fetch"
    /\ ~shutdown_in_progress
    /\ shutdown_in_progress' = TRUE
    /\ phase' = "shutdown"
    /\ pc' = [t \in TaskIds |-> CASE pc[t] = "done"  -> "done"
                                  [] pc[t] = "ytdlp" -> "thread"
                                  [] OTHER           -> "cancelled"]
    /\ retry_count' = [t \in TaskIds |-> IF pc[t] = "done" THEN retry_count[t] ELSE 0]
    /\ format_idx' = [t \in TaskIds |-> IF pc[t] = "done" THEN format_idx[t] ELSE 0]
    /\ held' = [t \in TaskIds |-> 0]
    /\ download_semaphore' = max_concurrent
    /\ fd' = [t \in TaskIds |-> "closed"]
    /\ UNCHANGED <<config, delays, fetcher, run, exit_code, ledger, processed_urls, tasks, outcome, fetches,
                   files, total_urls, advanced>>

\* ydl.download ends in its executor thread after the coroutine that
\* awaited it was cancelled: the file is written or not, nobody looks
ExecutorThreadEnds(t) ==
    /\ phase = "shutdown"
    /\ pc[t] = "thread"
    /\ pc' = [pc EXCEPT ![t] = "cancelled"]
    /\ \/ \E s \in VideoSizes :
             files' = WithFile(files, VideoPath(t), [size |-> s, whole |-> TRUE])
       \/ UNCHANGED files
    /\ UNCHANGED <<config, delays, fetcher, process, ledger, processed_urls, tasks, retry_count, held,
                   format_idx, outcome, fetches, download_semaphore, fd, total_urls, advanced>>

\* asyncio.run has cancelled the tasks and joined the executor threads:
\* SystemExit(0) leaves main
ExitAfterInterrupt ==
    /\ phase = "shutdown"
    /\ \A t \in TaskIds : pc[t] # "thread"
    /\ phase' = "exited"
    /\ exit_code' = 0
    /\ UNCHANGED <<config, delays, fetcher, run, shutdown_in_progress, ledger, processed_urls, tasks, sched,
                   disk, total_urls, advanced>>

\* a second signal while shutdown_in_progress, or the force_quit timer
\* after 5 seconds: os._exit(1)
ForceQuit ==
    /\ phase = "shutdown"
    /\ shutdown_in_progress
    /\ phase' = "exited"
    /\ exit_code' = 1
    /\ pc' = [t \in TaskIds |-> IF pc[t] = "thread" THEN "cancelled" ELSE pc[t]]
    /\ UNCHANGED <<config, delays, fetcher, run, shutdown_in_progress, ledger, processed_urls, tasks,
                   retry_count, held, format_idx, outcome, fetches, download_semaphore,
                   disk, total_urls, advanced>>

\* ------------------------------------------------------------------------
\* Specification
\* ------------------------------------------------------------------------

NoFiles == [q \in {} |-> EmptyFile]

\* the destinations the tasks of a listing can have
Destinations(listing, style) ==
    LET ts == BuildTasks(Reverse(listing), style, {})
    IN  {Join(ts[i].filename) : i \in 1..Len(ts)} \ {""}

\* the output directory before the first run: empty, or holding one file
\* at a destination (left by an earlier use of the directory)
InitialDirs(listing, style) ==
    {NoFiles} \cup
    {WithFile(NoFiles, p, [size |-> s, whole |-> TRUE]) :
        p \in Destinations(listing, style), s \in StaleSizes}

\* the fetcher before run() is entered
FetcherInit ==
    /\ saved_data = Unbound
    /\ all_posts = <<>>
    /\ seen_post_ids = {}
    /\ after = Null
    /\ consecutive_duplicates = 0
    /\ data = NoAnswer

\* The program is started with --reddit-session on an account whose saved
\* listing is answered in one page, or with --input on a document (a saved
\* listing in the shape it is stored in, or a document without a listing)
Init ==
    /\ \/ \E m \in SavedListings : \E posts \in Prefixes(m.posts) :
             /\ max_concurrent \in m.limits
             /\ filename_style \in m.styles
             /\ ledger_file \in m.ledgers
             /\ args_input = FALSE
             /\ input_data = JsonNone
             /\ username = "me"
             /\ server = {Page(posts, Null)}
             /\ files \in InitialDirs(posts, filename_style)
       \/ /\ max_concurrent = 5
          /\ filename_style = "basic"
          /\ ledger_file = Absent
          /\ args_input = TRUE
          /\ input_data \in MalformedDocuments \cup UNION {Documents(m) : m \in SavedListings}
          /\ username = "none"
          /\ server = {}
          /\ files = NoFiles
    /\ FetcherInit
    /\ delays = <<>>
    /\ run = 1
    /\ phase = "start"
    /\ exit_code = NotExited
    /\ shutdown_in_progress = FALSE
    /\ loaded_posts = {}
    /\ processed_posts = {}
    /\ processed_urls = {}
    /\ download_semaphore = max_concurrent
    /\ tasks = NoTasks
    /\ pc = <<>> /\ retry_count = <<>> /\ held = <<>> /\ format_idx = <<>>
    /\ outcome = <<>> /\ fetches = <<>> /\ fd = <<>>
    /\ total_urls = 0
    /\ advanced = 0

Next ==
    \/ ValidateInput
    \/ Run
    \/ FetchPage
    \/ ProcessPosts
    \/ SaveLedger
    \/ NextRun
    \/ Interrupt
    \/ ExitAfterInterrupt
    \/ ForceQuit
    \/ \E t \in TaskIds : ExecutorThreadEnds(t)
    \/ \E t \in TaskIds : LaunchFile(t)
    \/ \E t \in TaskIds : AcquireSlot(t)
    \/ \E t \in TaskIds : Status200(t)
    \/ \E t \in TaskIds : Status429(t)
    \/ \E t \in TaskIds : StatusOther(t)
    \/ \E t \in TaskIds : TransportError(t)
    \/ \E t \in TaskIds : ReadBody(t)
    \/ \E t \in TaskIds : ReadFails(t)
    \/ \E t \in TaskIds : CloseRename(t)
    \/ \E t \in TaskIds : Wake(t)
    \/ \E t \in TaskIds : LaunchVideo(t)
    \/ \E t \in TaskIds : YtdlpReturns(t)
    \/ \E t \in TaskIds : YtdlpDownloadError(t)
    \/ \E t \in TaskIds : YtdlpRateLimited(t)
    \/ \E t \in TaskIds : YtdlpException(t)
    \/ \E t \in TaskIds : LaunchRedgifs(t)
    \/ \E t \in TaskIds : TokenOk(t)
    \/ \E t \in TaskIds : TokenFails(t)
    \/ \E t \in TaskIds : MetaOk(t)
    \/ \E t \in TaskIds : MetaFails(t)

Spec == Init /\ [][Next]_vars

\* The planning specification: a run with --reddit-session on a saved
\* listing of one post, for every post of PostShapes and every style, up to
\* the task list process_posts hands to asyncio.gather
PlanInit ==
    /\ max_concurrent = 5
    /\ filename_style \in Styles
    /\ args_input = FALSE
    /\ input_data = JsonNone
    /\ username = "me"
    /\ server \in {{Page(<<Wrap(post)>>, Null)} : post \in PostShapes}
    /\ FetcherInit
    /\ delays = <<>>
    /\ files = NoFiles
    /\ run = 1
    /\ phase = "start"
    /\ exit_code = NotExited
    /\ shutdown_in_progress = FALSE
    /\ ledger_file = Absent
    /\ loaded_posts = {}
    /\ processed_posts = {}
    /\ processed_urls = {}
    /\ download_semaphore = max_concurrent
    /\ tasks = NoTasks
    /\ pc = <<>> /\ retry_count = <<>> /\ held = <<>> /\ format_idx = <<>>
    /\ outcome = <<>> /\ fetches = <<>> /\ fd = <<>>
    /\ total_urls = 0
    /\ advanced = 0

PlanNext ==
    \/ ValidateInput
    \/ Run
    \/ FetchPage
    \/ ProcessPosts

PlanSpec == PlanInit /\ [][PlanNext]_vars

\* ------------------------------------------------------------------------
\* The backoff delay
\* ------------------------------------------------------------------------

base_delay == 1

\* The significand of a float has MantissaBits bits (53 in the program:
\* the arithmetic is the same at any width, the model uses a small one).
\* Times are written as numerators over 2^MantissaBits: Unit is one second
MantissaBits == 4

RECURSIVE Pow2(_)
Pow2(n) == IF n = 0 THEN 1 ELSE 2 * Pow2(n - 1)

Unit == Pow2(MantissaBits)

\* random.uniform(0, 1) is 0 + (1 - 0) * random(), and random() is a
\* multiple of 2^-MantissaBits in [0, 1)
Jitters == 0..(Unit - 1)

\* the float nearest to x (ties to the even significand) among the floats
\* of [2^e, 2^(e+1)], which are the multiples of 2^(e+1) numerator units
RoundToFloat(x, e) ==
    LET ulp  == Pow2(e + 1)
        q    == x \div ulp
        r    == x % ulp
    IN  IF 2 * r < ulp THEN q * ulp
        ELSE IF 2 * r > ulp THEN (q + 1) * ulp
        ELSE IF q % 2 = 0 THEN q * ulp ELSE (q + 1) * ulp

\* a delay that leaves out the exponential term
DelayJitterOnly(k, jitter) == jitter

\* delay = self.base_delay * (2 ** retry_count) + random.uniform(0, 1):
\* the product is an int, the sum is the float nearest to the exact sum
\* (the same expression at lines 480, 494, 736 and 754)
Delay(k, jitter) == RoundToFloat(base_delay * Pow2(k) * Unit + jitter, k)

\* one coroutine (of the generic pipeline or of the reddit-video path) is
\* followed through its retries: before retry k it sleeps Delay(k, jitter)
Backoff ==
    /\ Len(delays) < max_retries
    /\ \E jitter \in Jitters : delays' = Append(delays, Delay(Len(delays), jitter))
    /\ UNCHANGED <<config, fetcher, process, ledger, processed_urls, tasks, sched, disk,
                   total_urls, advanced>>

BackoffInit ==
    /\ delays = <<>>
    /\ max_concurrent = 5
    /\ filename_style = "basic"
    /\ args_input = FALSE
    /\ input_data = JsonNone
    /\ username = "me"
    /\ server = {Page(<<Wrap(PostCat)>>, Null)}
    /\ FetcherInit
    /\ files = NoFiles
    /\ run = 1
    /\ phase = "start"
    /\ exit_code = NotExited
    /\ shutdown_in_progress = FALSE
    /\ ledger_file = Absent
    /\ loaded_posts = {}
    /\ processed_posts = {}
    /\ processed_urls = {}
    /\ download_semaphore = max_concurrent
    /\ tasks = NoTasks
    /\ pc = <<>> /\ retry_count = <<>> /\ held = <<>> /\ format_idx = <<>>
    /\ outcome = <<>> /\ fetches = <<>> /\ fd = <<>>
    /\ total_urls = 0
    /\ advanced = 0

BackoffNext == Backoff

\* ------------------------------------------------------------------------
\* The pagination specification
\* ------------------------------------------------------------------------

\* the longest page
MaxPage == 2

\* a post record without an 'id' member
PostNoId == [PostCat EXCEPT !.id = Absent]

\* the cursor of a page: the name t3_x of a post, and the empty string
Cursor == <<"t3_x">>

Afters == {Absent, Null, Val(<<>>), Val(Cursor)}

\* the children of a page: up to MaxPage records of the account's two saved
\* posts or of a record without id
PageChildren ==
    UNION {[1..n -> {Wrap(PostCat), Wrap(PostDog), Wrap(PostNoId)}] : n \in 0..MaxPage}

\* every answer the endpoint can give to a request
Answers ==
    {Failure, NoListing} \cup {Page(children, a) : children \in PageChildren, a \in Afters}

\* the program is started with --reddit-session; the endpoint may give any
\* answer to any request
FetchInit ==
    /\ delays = <<>>
    /\ max_concurrent = 5
    /\ filename_style = "basic"
    /\ args_input = FALSE
    /\ input_data = JsonNone
    /\ username \in {"me", "none"}
    /\ server = Answers
    /\ FetcherInit
    /\ files = NoFiles
    /\ run = 1
    /\ phase = "start"
    /\ exit_code = NotExited
    /\ shutdown_in_progress = FALSE
    /\ ledger_file = Absent
    /\ loaded_posts = {}
    /\ processed_posts = {}
    /\ processed_urls = {}
    /\ download_semaphore = max_concurrent
    /\ tasks = NoTasks
    /\ pc = <<>> /\ retry_count = <<>> /\ held = <<>> /\ format_idx = <<>>
    /\ outcome = <<>> /\ fetches = <<>> /\ fd = <<>>
    /\ total_urls = 0
    /\ advanced = 0

FetchNext ==
    \/ ValidateInput
    \/ Run
    \/ FetchPage

FetchSpec == FetchInit /\ [][FetchNext]_vars

\* main, run() and the loop are sequential code: while the endpoint answers
\* each request, the next statement is executed
FetchFairSpec == FetchSpec /\ WF_vars(FetchNext)

BackoffSpec == BackoffInit /\ [][BackoffNext]_vars

\* ------------------------------------------------------------------------
\* Properties
\* ------------------------------------------------------------------------

Unfinished == {t \in TaskIds : pc[t] # "done"}

\* the coroutines that run _download_file_with_retry
GenericTasks == {t \in TaskIds : tasks[t].kind \in {"file", "redgifs"}}

DirectTasks == {t \in TaskIds : tasks[t].kind = "file"}

\* a byte fetch or an external-downloader call of the task is in flight
Fetching(t) == pc[t] \in {"get", "read", "close", "ytdlp"}

\* C1: every task reaches a terminal outcome and process_posts returns: no
\* reachable state has all unfinished tasks blocked for good waiting for a
\* concurrency slot (a task blocked on an empty semaphore is freed only by
\* the return of a task that holds slots, and every holder is blocked).
C1_NoSlotDeadlock ==
    ~ /\ phase = "fetch"
      /\ Unfinished # {}
      /\ download_semaphore = 0
      /\ \A t \in Unfinished : pc[t] = "wait"

\* C2: at every instant the number of tasks performing a fetch (a byte
\* fetch of a Direct or RedGifs task, an external-downloader call of a
\* HostedVideo task) is at most max_concurrent.
C2_FetchesWithinLimit ==
    Cardinality({t \in TaskIds : Fetching(t)}) <= max_concurrent

\* C3: a task holds no concurrency slot during its backoff sleep, and never
\* holds more than one slot.
C3_NoSlotWhileSleeping ==
    \A t \in TaskIds :
        /\ pc[t] = "sleep" => held[t] = 0
        /\ held[t] <= 1

\* C4: a Direct task issues at most 1 + max_retries fetch requests, and
\* when every request is answered with 429 or a transport error it goes on
\* to the next request until it ends FailedTerminal after the 4th: it is
\* never left waiting, before its 4th request, for a slot that nothing can
\* free.
C4_FourFetchesThenFailed ==
    \A t \in DirectTasks :
        /\ fetches[t] <= 1 + max_retries
        /\ ~ (pc[t] = "wait" /\ fetches[t] < 1 + max_retries /\ held[t] = max_concurrent)

\* C5: a file at the final destination path of a generic-pipeline task
\* holds a complete body of one successful response, never a partial or
\* mixed write.
C5_DestinationComplete ==
    \A t \in GenericTasks : Exists(Dest(t)) => files[Dest(t)].whole

\* C6: a run creates no download task (and so issues no request) for a
\* post whose id an earlier run recorded in the ledger.
C6_NoTaskForRecordedPost ==
    \A t \in TaskIds : tasks[t].post_id \notin loaded_posts

\* a second run has returned; the listing has a post with media whose id
\* the first run recorded
WitnessC6 ==
    /\ run = 2
    /\ phase = "done"
    /\ tasks = NoTasks
    /\ \E i \in 1..Len(PostsOf(saved_data)) :
          /\ PostId(PostsOf(saved_data)[i].data.v) \in loaded_posts
          /\ GetMediaUrls(PostsOf(saved_data)[i].data.v).urls # <<>>

\* C7: when a run completes, the id of every post that had a task is in
\* the persisted ledger, whatever the outcomes of its tasks, and a later
\* run on that ledger schedules nothing for the listing.
C7_MarkedWhateverTheOutcome ==
    /\ (phase = "done" /\ tasks # NoTasks) =>
            \A t \in TaskIds : tasks[t].post_id \in LoadProcessedPosts(ledger_file)
    /\ run > 1 => tasks = NoTasks

\* the RedGifs scenario: the token call failed, nothing was fetched or
\* written, the post is in the ledger
WitnessC7 ==
    /\ phase = "done"
    /\ tasks # NoTasks
    /\ \A t \in TaskIds : outcome[t] = "FailedTerminal"
    /\ \E t \in TaskIds : tasks[t].kind = "redgifs" /\ fetches[t] = 0
    /\ files = NoFiles
    /\ Val("rg") \in LoadProcessedPosts(ledger_file)

\* C8: of two tasks of one run with the same source URL at most one
\* performs a fetch of that URL.
C8_OneFetchPerUrl ==
    \A t, u \in GenericTasks :
        (t # u /\ FetchUrl(t) = FetchUrl(u)) => ~(fetches[t] > 0 /\ fetches[u] > 0)

\* a task enters the generic pipeline (its first call of
\* _download_file_with_retry)
StartsPipeline(t) == LaunchFile(t) \/ MetaOk(t)

\* C9 as stated: a generic-pipeline task that starts while its destination
\* file exists with any size > 0 ends SkippedAlreadyPresent, without a
\* fetch, the file unchanged, its URL in completed_urls.
C9_SkipsAnyNonEmptyFile ==
    [][\A t \in TaskIds :
          (StartsPipeline(t) /\ NonEmptyFile(Dest(t))) =>
              /\ outcome'[t] = "SkippedAlreadyPresent"
              /\ fetches'[t] = fetches[t]
              /\ files' = files
              /\ FetchUrl(t) \in processed_urls']_vars

\* C9 amended: a generic-pipeline task that starts while its destination
\* file exists with a size of at least 1024 bytes ends without a fetch, the
\* file unchanged and its URL in completed_urls: SkippedAlreadyPresent, or
\* SkippedAlreadyProcessed when the URL was in completed_urls already.
C9_SkipsValidFile ==
    [][\A t \in TaskIds :
          (StartsPipeline(t) /\ Exists(Dest(t)) /\ files[Dest(t)].size >= MinValidSize) =>
              /\ outcome'[t] = IF FetchUrl(t) \in processed_urls
                               THEN "SkippedAlreadyProcessed" ELSE "SkippedAlreadyPresent"
              /\ fetches'[t] = 0
              /\ files' = files
              /\ FetchUrl(t) \in processed_urls']_vars

WitnessC9 ==
    \E t \in DirectTasks :
        /\ outcome[t] = "SkippedAlreadyPresent"
        /\ retry_count[t] = 0 /\ fetches[t] = 0
        /\ files[Dest(t)].size >= MinValidSize
        /\ FetchUrl(t) \in processed_urls

\* the step makes task t end FailedTerminal
Fails(t) == outcome[t] = "none" /\ outcome'[t] = "FailedTerminal"

\* C10: a task that ends FailedTerminal leaves every other task as it is
\* (none is cancelled or skipped) and takes no slot away, the run ends only
\* when every task has its own terminal outcome, and the ledger is
\* persisted then.
C10_FailureIsolated ==
    /\ [][\A t \in TaskIds : Fails(t) =>
              /\ phase' = phase
              /\ download_semaphore' >= download_semaphore
              /\ \A u \in TaskIds \ {t} :
                    /\ pc'[u] = pc[u] /\ outcome'[u] = outcome[u]
                    /\ retry_count'[u] = retry_count[u] /\ held'[u] = held[u]]_vars
    /\ [](phase = "done" /\ tasks # NoTasks =>
              /\ \A t \in TaskIds : outcome[t] # "none"
              /\ ledger_file = SaveProcessedPosts(processed_posts))

WitnessC10 ==
    /\ phase = "done"
    /\ ledger_file = SaveProcessedPosts(processed_posts)
    /\ \E t, u \in TaskIds : outcome[t] = "FailedTerminal" /\ outcome[u] = "Success"

\* a RedGifs task that has not yet reached the byte fetch: at its start, or
\* waiting for the answer to its token or metadata request
Resolving(t) == tasks[t].kind = "redgifs" /\ pc[t] \in {"new", "token", "meta"}

\* C11: RedGifs resolution stops at the failing step.  A task whose URL
\* gives an empty id ends at its first step without any request; a task
\* leaves the token request only for the metadata request or for its end,
\* and the metadata request only for the byte-fetch pipeline or for its
\* end; a resolution step that fails ends the task FailedTerminal at once
\* (no backoff, no retry), with no byte fetch made and no file touched.
\* (Steps of the task itself: an interrupt of the process is C20's subject.)
C11_ResolutionFailureIsTerminal ==
    /\ [](\A t \in TaskIds : Resolving(t) => fetches[t] = 0 /\ fd[t] = "closed" /\ retry_count[t] = 0)
    /\ [][\A t \in TaskIds : (Resolving(t) /\ pc'[t] # pc[t] /\ ~shutdown_in_progress') =>
              \/ /\ pc[t] = "new" /\ pc'[t] = "token"
                 /\ ExtractRedgifsId(tasks[t].url) # <<>>
              \/ pc[t] = "token" /\ pc'[t] = "meta"
              \/ pc[t] = "meta" /\ pc'[t] \in {"get", "wait"}
              \/ /\ pc[t] = "meta" /\ pc'[t] = "done"
                 /\ outcome'[t] \in {"SkippedAlreadyPresent", "SkippedAlreadyProcessed"}
              \/ /\ pc'[t] = "done" /\ outcome'[t] = "FailedTerminal"
                 /\ retry_count'[t] = 0 /\ fetches'[t] = 0
                 /\ files' = files /\ fd' = fd]_vars

\* a RedGifs task whose URL has no id has ended without a fetch, and the
\* directory holds no temp or partial file
WitnessC11 ==
    /\ \E t \in TaskIds :
          /\ tasks[t].kind = "redgifs" /\ ExtractRedgifsId(tasks[t].url) = <<>>
          /\ outcome[t] = "FailedTerminal" /\ fetches[t] = 0
    /\ \A q \in DOMAIN files : files[q].whole /\ files[q].size > 0

\* the post of the listing a task was created for
OwnerPost(t) ==
    LET posts == PostsOf(saved_data)
    IN  posts[CHOOSE i \in 1..Len(posts) :
                /\ PostId(posts[i].data.v) = tasks[t].post_id
                /\ \E j \in 1..Len(GetMediaUrls(posts[i].data.v).urls) :
                       GetMediaUrls(posts[i].data.v).urls[j] = tasks[t].url].data.v

\* _generate_filename returned '' for the candidate of the task
Unnameable(t) == GenerateFilename(OwnerPost(t), tasks[t].url, filename_style) = <<>>

\* C12: a candidate for which _generate_filename returns '' is dropped: there
\* is no download task for it, so no request is made for it and no file is
\* written for it.
C12_UnnameableCandidateDropped ==
    /\ \A t \in TaskIds : ~Unnameable(t)
    /\ \A t \in TaskIds : Unnameable(t) => fetches[t] = 0 /\ ~Exists(Tmp(t))

\* the document is neither a list nor an object, or an object without
\* data.children
Malformed(saved) ==
    \/ saved.k = "scalar"
    \/ saved.k = "dict" /\ (saved.data.k # "val" \/ saved.data.v.children.k # "val")

\* C13: on a malformed document of --input no download task is created,
\* process_posts schedules nothing, and the process ends with exit code 1
\* and no other.
C13_MalformedInputIsFatal ==
    (args_input /\ Malformed(input_data)) =>
        /\ tasks = NoTasks
        /\ phase \notin {"fetched", "fetch", "done"}
        /\ exit_code \in {NotExited, 1}
        /\ phase \in {"exited", "crashed"} => exit_code = 1

\* a document that is a truthy scalar passed the tests of main, and the
\* process has ended with status 1 at the call of process_posts
WitnessC13 ==
    /\ args_input
    /\ input_data = JsonScalar(TRUE)
    /\ phase = "crashed"
    /\ exit_code = 1
    /\ tasks = NoTasks

\* the posts of the listing
ListedPosts == {PostsOf(saved_data)[i].data.v : i \in 1..Len(PostsOf(saved_data))}

\* process_posts has gone through the listing
Planned == saved_data.k = "dict" /\ phase \in {"fetch", "done", "crashed"}

\* C14: _get_media_urls raises for no post, whichever optional members are
\* absent, null or present: process_posts gets a list for every post and
\* no exception leaves it.
C14_ExtractNeverRaises ==
    Planned => /\ \A post \in ListedPosts : ~GetMediaUrls(post).raised
               /\ phase # "crashed"

\* C15: for a post with domain 'redgifs.com' and a url_overridden_by_dest,
\* the first candidate is that URL, and the task created for it runs the
\* RedGifs strategy, whatever the URL contains.
C15_RedgifsDomainGetsRedgifsStrategy ==
    \A t \in TaskIds :
        LET post == OwnerPost(t)
        IN  (Get(post.domain) = Val("redgifs.com") /\ post.url_overridden_by_dest.k = "val") =>
                /\ GetMediaUrls(post).urls[1] = post.url_overridden_by_dest.v
                /\ tasks[t].url = post.url_overridden_by_dest.v => tasks[t].kind = "redgifs"

\* the reddit_video block of the post names no URL
NoRedditVideoUrl(post) ==
    \/ post.media.k # "val"
    \/ post.media.v.reddit_video.k # "val"
    \/ /\ ~TruthyStr(Get(post.media.v.reddit_video.v.fallback_url))
       /\ ~TruthyStr(Get(post.media.v.reddit_video.v.hls_url))

\* the preview block of the post names no fallback URL
NoPreviewUrl(post) ==
    \/ post.preview.k # "val"
    \/ post.preview.v.reddit_video_preview.k # "val"
    \/ ~TruthyStr(Get(post.preview.v.reddit_video_preview.v.fallback_url))

\* the post has no recognized media signal
NoMediaSignal(post) ==
    /\ Get(post.domain) # Val("redgifs.com")
    /\ Get(post.is_video) # Val(TRUE) \/ NoRedditVideoUrl(post)
    /\ NoPreviewUrl(post)
    /\ \/ post.url_overridden_by_dest.k # "val"
       \/ /\ ~Contains(post.url_overridden_by_dest.v, V_REDD_IT)
          /\ ~IsMediaExt(Lower(Splitext(post.url_overridden_by_dest.v)[2]))

\* C16: for a post with no recognized media signal _get_media_urls returns
\* the empty list, no task is created for the post, and the run goes on
\* without error.
C16_NoSignalNoTask ==
    \A post \in ListedPosts :
        (NoMediaSignal(post) /\ Planned) =>
            /\ GetMediaUrls(post) = Returned(<<>>)
            /\ \A t \in TaskIds : tasks[t].post_id # PostId(post)
            /\ phase # "crashed"

\* the path without the token tok in front of its extension
WithoutSuffix(path, tok) ==
    LET stem == Splitext(path)[1]
    IN  IF stem # <<>> /\ stem[Len(stem)] = tok
        THEN SubSeq(stem, 1, Len(stem) - 1) \o Splitext(path)[2]
        ELSE path

\* the pairs <<t, u>> of tasks made for the first and the second candidate
\* of a post that has exactly 2 candidates
CandidatePairs ==
    {pair \in TaskIds \X TaskIds :
        /\ pair[2] = pair[1] + 1
        /\ tasks[pair[1]].post_id = tasks[pair[2]].post_id
        /\ Len(GetMediaUrls(OwnerPost(pair[1])).urls) = 2}

\* C17 as stated: under every style the two destination paths of a post
\* with exactly 2 candidates are distinct and differ only by the suffix:
\* without `_1` and `_2` they are the same path.
C17_PathsDifferOnlyBySuffix ==
    \A pair \in CandidatePairs :
        LET f1 == tasks[pair[1]].filename
            f2 == tasks[pair[2]].filename
        IN  /\ f1 # f2
            /\ WithoutSuffix(f1, "_1") = WithoutSuffix(f2, "_2")

\* C17 amended: under every style the two destination paths are distinct,
\* and each is the name planned for its own candidate with `_1` or `_2`
\* in front of the extension; the two are the same path without the suffix
\* when the URLs are the same, or when the style is basic or pretty and
\* both URLs give the same extension.
C17_PathsCarrySuffix ==
    \A pair \in CandidatePairs :
        LET post == OwnerPost(pair[1])
            u1 == tasks[pair[1]].url
            u2 == tasks[pair[2]].url
            f1 == tasks[pair[1]].filename
            f2 == tasks[pair[2]].filename
        IN  /\ f1 # f2
            /\ f1 # WithoutSuffix(f1, "_1") /\ f2 # WithoutSuffix(f2, "_2")
            /\ WithoutSuffix(f1, "_1") = GenerateFilename(post, u1, filename_style)
            /\ WithoutSuffix(f2, "_2") = GenerateFilename(post, u2, filename_style)
            /\ (u1 = u2 \/ (filename_style \in {"basic", "pretty"} /\ FileExt(post, u1) = FileExt(post, u2)))
                  => WithoutSuffix(f1, "_1") = WithoutSuffix(f2, "_2")

\* style advanced: a post with two different candidate URLs has its two
\* tasks, and their names differ in front of the suffix
WitnessC17 ==
    /\ filename_style = "advanced"
    /\ \E pair \in CandidatePairs :
          /\ tasks[pair[1]].url # tasks[pair[2]].url
          /\ WithoutSuffix(tasks[pair[1]].filename, "_1") # WithoutSuffix(tasks[pair[2]].filename, "_2")

\* the scenario of the spec: the first run on the document
\* {"data": {"children": [post]}} with the one post abc / "Cat Pic" /
\* https://i.example/cat.jpg given as --input, style basic
ScenarioCatPic ==
    /\ args_input
    /\ input_data = Listing(<<Wrap(PostCat)>>)
    /\ filename_style = "basic"
    /\ run = 1

\* the file the scenario names, in the output directory
FileCatPic == "out/Cat_Pic --- abc.jpg"

\* C18: when the process of the scenario has ended, exactly one task was
\* created, for the post's URL and the file `Cat_Pic --- abc.jpg`, it has
\* issued exactly one GET, and after a 200 answer the directory holds
\* exactly one file, of that name.
C18_BasicScenario ==
    (ScenarioCatPic /\ phase \in {"done", "crashed", "exited"}) =>
        /\ Len(tasks) = 1
        /\ tasks[1].kind = "file" /\ tasks[1].url = UrlCat /\ FetchUrl(1) = UrlCat
        /\ Dest(1) = FileCatPic
        /\ fetches[1] >= 1
        /\ (outcome = <<"Success">> /\ retry_count = <<0>>) =>
                fetches = <<1>> /\ DOMAIN files = {FileCatPic}

\* the tasks that have their terminal outcome
Terminal == {t \in TaskIds : outcome[t] # "none"}

\* C19: the progress bar has received exactly one advance per task that has
\* reached its terminal outcome (none for a task still running, sleeping or
\* trying another format), every step advances it by the number of tasks
\* that end in that step, and when all tasks are terminal the advances
\* equal the total set at scheduling, which is the number of tasks.
C19_OneAdvancePerOutcome ==
    /\ [](advanced = Cardinality(Terminal))
    /\ [][tasks' = tasks =>
              advanced' - advanced =
                  Cardinality({t \in TaskIds : outcome[t] = "none" /\ outcome'[t] # "none"})]_vars
    /\ [](tasks # NoTasks => total_urls = Len(tasks))
    /\ []((tasks # NoTasks /\ Terminal = TaskIds) => advanced = total_urls)

\* a run has ended with both tasks of a reddit-hosted video terminal: one
\* downloaded after a backoff, one failed after the last format
WitnessC19 ==
    /\ phase = "done"
    /\ total_urls = 2 /\ advanced = 2
    /\ \E t, u \in TaskIds :
          /\ tasks[t].kind = "reddit_video" /\ tasks[u].kind = "reddit_video"
          /\ outcome[t] = "Success" /\ retry_count[t] > 0
          /\ outcome[u] = "FailedTerminal" /\ format_idx[u] = NumFormats - 1

\* C20: a first interrupt during the fetch phase cancels no task: no task
\* is ever found cancelled, and when the process ends with exit code 0
\* after the interrupt (no second interrupt, no forced exit) every task has
\* its own terminal outcome.
C20_InterruptLetsTasksFinish ==
    /\ \A t \in TaskIds : pc[t] \notin {"cancelled", "thread"}
    /\ (shutdown_in_progress /\ phase = "exited" /\ exit_code = 0) => Terminal = TaskIds

\* C21: within one run the ledger file is read in the step that builds the
\* task list, before any task exists, and what was read stays the file's
\* content while the tasks run; the file is written only in the step that
\* ends the run, when every task has its terminal outcome, and after it the
\* run makes no other step; the in-memory set of processed ids changes only
\* in the task-building step, and no step of the fetch phase changes it.
C21_LedgerReadOnceWrittenOnce ==
    /\ [][(loaded_posts' # loaded_posts /\ run' = run) =>
              /\ phase = "fetched" /\ tasks = NoTasks
              /\ loaded_posts' = LoadProcessedPosts(ledger_file)]_vars
    /\ [](phase = "fetch" => loaded_posts = LoadProcessedPosts(ledger_file))
    /\ [][ledger_file' # ledger_file =>
              /\ phase = "fetch" /\ phase' = "done" /\ run' = run
              /\ Terminal = TaskIds
              /\ tasks' = tasks /\ outcome' = outcome]_vars
    /\ [][phase = "done" => (ledger_file' = ledger_file /\ run' = run + 1)]_vars
    /\ [][(processed_posts' # processed_posts /\ run' = run) => phase = "fetched"]_vars
    /\ [][(phase = "fetch" \/ phase = "shutdown") => (processed_posts' = processed_posts)]_vars

\* a run on a directory with a ledger of an earlier use has ended: the old
\* ids were read, the id of the new post was added while the tasks were
\* built, and the file was written after the post's task ended
WitnessC21 ==
    /\ phase = "done"
    /\ run = 1
    /\ loaded_posts = OldLedger.v
    /\ processed_posts = OldLedger.v \cup {Val("abc")}
    /\ ledger_file = Val(processed_posts)
    /\ tasks # NoTasks /\ Terminal = TaskIds

\* C22: a task of any kind that has ended in Success has the source URL of
\* its candidate in completed_urls, for the rest of the run.
C22_SuccessMarksCandidateUrl ==
    \A t \in TaskIds : outcome[t] = "Success" => tasks[t].url \in processed_urls

\* the coroutines that run _download_reddit_video_with_retry
VideoTasks == {t \in TaskIds : tasks[t].kind = "reddit_video"}

\* C23: when the backoff sleep of a HostedVideo task is over, its next
\* external call uses the selector index that was being tried when the
\* downloader reported the rate limit.
C23_RetryKeepsSelector ==
    [][tasks' = tasks =>
          \A t \in VideoTasks :
              (pc[t] = "sleep" /\ pc'[t] = "ytdlp") => format_idx'[t] = format_idx[t]]_vars

\* the destination of the task holds a non-empty file
VideoFileThere(t, dir) == VideoPath(t) \in DOMAIN dir /\ dir[VideoPath(t)].size > 0

\* C24: a HostedVideo task starts every pass with the first selector and
\* its selector index stays within the four; a step that leaves the task
\* in an external call advances the index by exactly one; a call that
\* returns without raising ends the task in Success exactly when the
\* destination then holds a non-empty file, and no task ends in Success
\* without it; a task whose retry budget is not used up ends FailedTerminal
\* out of an external call only at the last selector.
C24_SelectorsInOrder ==
    /\ [](\A t \in VideoTasks : format_idx[t] \in 0..(NumFormats - 1))
    /\ [][tasks' = tasks =>
              \A t \in VideoTasks :
                  /\ (pc[t] # "ytdlp" /\ pc'[t] = "ytdlp") => format_idx'[t] = 0
                  /\ (pc[t] = "ytdlp" /\ pc'[t] = "ytdlp") =>
                         format_idx'[t] \in {format_idx[t], format_idx[t] + 1}
                  /\ (pc[t] = "ytdlp" /\ outcome'[t] = "Success") => VideoFileThere(t, files')
                  /\ (pc[t] = "ytdlp" /\ outcome'[t] = "FailedTerminal"
                          /\ retry_count[t] < max_retries) =>
                         format_idx[t] = NumFormats - 1]_vars
    /\ [][\A t \in VideoTasks :
              YtdlpReturns(t) =>
                  /\ outcome'[t] = "Success" <=> VideoFileThere(t, files')
                  /\ outcome'[t] # "Success" =>
                         IF format_idx[t] < NumFormats - 1
                         THEN pc'[t] = "ytdlp" /\ format_idx'[t] = format_idx[t] + 1
                         ELSE outcome'[t] = "FailedTerminal"]_vars
    /\ [][\A t \in VideoTasks :
              YtdlpDownloadError(t) =>
                  IF format_idx[t] < NumFormats - 1
                  THEN pc'[t] = "ytdlp" /\ format_idx'[t] = format_idx[t] + 1
                  ELSE outcome'[t] = "FailedTerminal"]_vars

\* of the two tasks of a reddit-hosted video, one has succeeded with a
\* later selector than the first, and the other has failed at the last
\* selector without any retry
WitnessC24 ==
    \E t, u \in VideoTasks :
        /\ outcome[t] = "Success" /\ format_idx[t] > 0 /\ VideoFileThere(t, files)
        /\ outcome[u] = "FailedTerminal" /\ format_idx[u] = NumFormats - 1 /\ retry_count[u] = 0

\* C25: in the generic pipeline the step of a response with a status other
\* than 200 and 429 ends the task FailedTerminal, whatever retry budget is
\* left: the step starts no sleep and no request, changes no file and not
\* completed_urls, and gives back every slot the task holds; and a task
\* that has ended FailedTerminal makes no further request.
C25_OtherStatusIsTerminal ==
    /\ [][\A t \in GenericTasks :
              StatusOther(t) =>
                  /\ outcome'[t] = "FailedTerminal" /\ pc'[t] = "done"
                  /\ retry_count' = retry_count /\ fetches' = fetches
                  /\ files' = files
                  /\ processed_urls' = processed_urls
                  /\ held'[t] = 0
                  /\ download_semaphore' = download_semaphore + held[t]]_vars
    /\ [][tasks' = tasks =>
              \A t \in GenericTasks :
                  outcome[t] = "FailedTerminal" =>
                      /\ outcome'[t] = "FailedTerminal" /\ pc'[t] = "done"
                      /\ fetches'[t] = fetches[t] /\ held'[t] = 0]_vars

\* a Direct task has ended FailedTerminal after its first and only GET,
\* with its whole retry budget left: no file, the URL not completed, all
\* slots free
WitnessC25 ==
    \E t \in DirectTasks :
        /\ outcome[t] = "FailedTerminal"
        /\ retry_count[t] = 0 /\ fetches[t] = 1
        /\ files = NoFiles
        /\ tasks[t].url \notin processed_urls
        /\ Len(tasks) = 1 /\ download_semaphore = max_concurrent

\* the coroutines that run _download_redgifs_video
RedgifsTasks == {t \in TaskIds : tasks[t].kind = "redgifs"}

\* C26: the already-processed check and the destination check come before
\* any resolution request: the first step of a RedGifs task whose
\* destination file is present and valid issues no token request (and so
\* no metadata request follows).
C26_ChecksBeforeResolution ==
    [][tasks' = tasks =>
          \A t \in RedgifsTasks :
              (pc[t] = "new" /\ pc'[t] # "new" /\ FileExistsAndValid(Dest(t))) =>
                  pc'[t] \notin {"token", "meta"}]_vars

\* C27 as stated: the delay before retry k is at least base_delay * 2^k and
\* less than base_delay * 2^k + 1, and the successive delays of a task are
\* strictly increasing.
C27_DelayBelowNextSecond ==
    /\ \A i \in 1..Len(delays) :
           /\ delays[i] >= base_delay * Pow2(i - 1) * Unit
           /\ delays[i] < (base_delay * Pow2(i - 1) + 1) * Unit
    /\ \A i \in 1..(Len(delays) - 1) : delays[i] < delays[i + 1]

\* C27, amended: the delay before retry k is at least base_delay * 2^k and
\* at most base_delay * 2^k + 1, and the successive delays of a task are
\* non-decreasing.
C27_DelayWithinBounds ==
    /\ \A i \in 1..Len(delays) :
           /\ delays[i] >= base_delay * Pow2(i - 1) * Unit
           /\ delays[i] <= (base_delay * Pow2(i - 1) + 1) * Unit
    /\ \A i \in 1..(Len(delays) - 1) : delays[i] <= delays[i + 1]

\* a coroutine has slept before each of its three retries: the first
\* delay, with the largest jitter, was rounded up to 2 s, and the second,
\* with jitter 0, was 2 s as well
WitnessC27 ==
    /\ Len(delays) = max_retries
    /\ delays[1] = (base_delay + 1) * Unit
    /\ delays[2] = delays[1]
    /\ delays[3] > delays[2]

\* the rule of _get_media_urls that appended candidate i of the post: 1 the
\* RedGifs domain, 2 the reddit_video block, 3 the preview, 4 a v.redd.it
\* url_overridden_by_dest, 5 a recognized media extension
RuleOf(post, i) ==
    LET n1 == Len(RedgifsRule(post))
        n2 == Len(RedditVideoRule(post))
        n3 == Len(PreviewRule(post, RedgifsRule(post) \o RedditVideoRule(post)))
    IN  IF i <= n1 THEN 1
        ELSE IF i <= n1 + n2 THEN 2
        ELSE IF i <= n1 + n2 + n3 THEN 3
        ELSE IF Contains(post.url_overridden_by_dest.v, V_REDD_IT) THEN 4
        ELSE 5

\* C28: in the task list of a listing of one post, the task of a candidate
\* that rule 2 or rule 3 appended runs the HostedVideo strategy, and the
\* task of a candidate that rule 5 appended runs the Direct strategy,
\* whatever the URL contains.
C28_StrategyFollowsRule ==
    (phase = "fetch" /\ Len(PostsOf(saved_data)) = 1) =>
        \A t \in TaskIds :
            LET rule == RuleOf(PostsOf(saved_data)[1].data.v, t)
            IN  /\ rule \in {2, 3} => tasks[t].kind = "reddit_video"
                /\ rule = 5 => tasks[t].kind = "file"

\* the page cannot be gone through: the request failed, the answer has no
\* data.children, the page is empty, or a record has no data.id
FailedPage(resp) ==
    \/ resp.k # "page"
    \/ resp.children = <<>>
    \/ \E i \in 1..Len(resp.children) : IdRaises(resp.children[i])

\* post['data']['id'] of the records of a sequence
IdsOf(posts) == [i \in 1..Len(posts) |-> posts[i].data.v.id]

\* every post id of the page was seen on an earlier page
AllSeen(resp, seen) == \A i \in 1..Len(resp.children) : IdsOf(resp.children)[i] \in seen

\* the page names no next page: `after` is absent, null or empty
NoCursor(resp) == ~TruthyStr(Get(resp.after))

\* the index of the first record of the page with the id
FirstAt(resp, id) ==
    CHOOSE i \in 1..Len(resp.children) :
        /\ IdsOf(resp.children)[i] = id
        /\ \A j \in 1..(i - 1) : IdsOf(resp.children)[j] # id

\* C29: a pass of the pagination loop ends the loop exactly when its page
\* is empty or failed, or is the third in a row without a new post id, or
\* has no `after` cursor; the counter of such pages goes up by one on a
\* page of seen ids only and back to 0 on a page with a new id; the posts
\* collected keep their order, a page adds its posts with new ids, once
\* each and in the order of the page; and the listing returned holds the
\* posts collected, each id once.
C29_PaginationStops ==
    /\ [][phase = "paging" =>
              LET resp == data'
                  seen == AllSeen(resp, seen_post_ids)
              IN  /\ phase' # "paging" <=>
                         \/ FailedPage(resp)
                         \/ seen /\ consecutive_duplicates = max_consecutive_duplicates - 1
                         \/ NoCursor(resp)
                  /\ ~FailedPage(resp) =>
                         /\ consecutive_duplicates' = IF seen THEN consecutive_duplicates + 1 ELSE 0
                         /\ \A i \in 1..Len(all_posts) : all_posts'[i] = all_posts[i]
                         /\ {IdsOf(all_posts')[i] : i \in 1..Len(all_posts')} =
                                {IdsOf(all_posts)[i] : i \in 1..Len(all_posts)} \cup
                                {IdsOf(resp.children)[i] : i \in 1..Len(resp.children)}
                         /\ \A i, j \in (Len(all_posts) + 1)..Len(all_posts') :
                                i < j => FirstAt(resp, IdsOf(all_posts')[i]) <
                                         FirstAt(resp, IdsOf(all_posts')[j])
                  /\ FailedPage(resp) => all_posts' = all_posts]_vars
    /\ [](\A i, j \in 1..Len(all_posts) : i # j => IdsOf(all_posts)[i] # IdsOf(all_posts)[j])
    /\ [](consecutive_duplicates < max_consecutive_duplicates \/ phase # "paging")
    /\ [](phase = "fetched" => saved_data = Listing(all_posts) /\ all_posts # <<>>)
    /\ []((phase = "done" /\ username = "me") => saved_data = JsonNone /\ all_posts = <<>>)

\* the loop ended at its third page in a row without a new id, a page with
\* a cursor, and the listing of the two posts seen before is returned
WitnessC29 ==
    /\ phase = "fetched"
    /\ consecutive_duplicates = max_consecutive_duplicates
    /\ data.k = "page" /\ ~NoCursor(data)
    /\ IdsOf(all_posts) = <<Val("abc"), Val("dog")>>
    /\ saved_data = Listing(all_posts)

\* C30: a step that changes the ledger file belongs to a run that has
\* tasks, and the set it writes contains every id the run loaded and every
\* id the file held; the step in which process_posts finds nothing to
\* schedule, and every step of a run without tasks, leaves the file as it
\* is.
C30_LedgerOnlyGrows ==
    /\ [][ledger_file' # ledger_file =>
              /\ tasks # NoTasks
              /\ ledger_file'.k = "val"
              /\ loaded_posts \subseteq ledger_file'.v
              /\ LoadProcessedPosts(ledger_file) \subseteq ledger_file'.v]_vars
    /\ [][(phase = "fetched" /\ tasks' = NoTasks) => ledger_file' = ledger_file]_vars
    /\ [][tasks = NoTasks => ledger_file' = ledger_file]_vars

\* the second run on a directory that had a ledger before the first: the
\* first run added an id to the file, the second has loaded the larger set,
\* scheduled nothing and returned, and the file is what it loaded
WitnessC30 ==
    /\ run = 2
    /\ phase = "done"
    /\ tasks = NoTasks
    /\ ledger_file = Val(loaded_posts)
    /\ OldLedger.v \subseteq loaded_posts /\ OldLedger.v # loaded_posts

\* extraction returns at least one candidate for the post
HasCandidates(post) == ~GetMediaUrls(post).raised /\ GetMediaUrls(post).urls # <<>>

\* extraction returns the empty list for the post
NoCandidates(post) == ~GetMediaUrls(post).raised /\ GetMediaUrls(post).urls = <<>>

\* the ids of the listed posts extraction returns a candidate for
IdsWithCandidates == {PostId(post) : post \in {p \in ListedPosts : HasCandidates(p)}}

\* C31: every id a run adds to the in-memory set, and every id a write adds
\* to the ledger file, is the id of a listed post for which extraction
\* returned a candidate in that run; the id of a listed post with no
\* candidate (and not in the ledger before the first run) is neither in
\* the set nor in the file; and in every later run such a post passes the
\* ledger test of the filter loop, so it is extracted again.
C31_OnlyPostsWithCandidatesRecorded ==
    /\ [][(phase = "fetched" /\ run' = run) =>
              /\ processed_posts' \ loaded_posts' \subseteq IdsWithCandidates
              /\ \A post \in ListedPosts :
                     NoCandidates(post) /\ PostId(post) \notin LoadProcessedPosts(ledger_file) =>
                         PostId(post) \notin processed_posts']_vars
    /\ [][ledger_file' # ledger_file =>
              ledger_file'.v \ LoadProcessedPosts(ledger_file) \subseteq IdsWithCandidates]_vars
    /\ [](\A post \in ListedPosts :
              NoCandidates(post) /\ PostId(post) \notin OldLedger.v =>
                  PostId(post) \notin processed_posts \cup LoadProcessedPosts(ledger_file))
    /\ [][(phase = "fetched" /\ run > 1) =>
              \A post \in ListedPosts :
                  NoCandidates(post) /\ PostId(post) \notin OldLedger.v =>
                      PostId(post) \notin loaded_posts']_vars

\* the second run on a listing of a media post and a self-text post has
\* returned: the ledger it loaded held the media post's id and not the id
\* of the self-text post, which was extracted again
WitnessC31 ==
    /\ run = 2
    /\ phase = "done"
    /\ loaded_posts # {}
    /\ loaded_posts = LoadProcessedPosts(ledger_file)
    /\ \E post \in ListedPosts : NoCandidates(post) /\ PostId(post) \notin loaded_posts
    /\ \E post \in ListedPosts : HasCandidates(post) /\ PostId(post) \in loaded_posts

\* the post ids the endpoint can ever return
IdsServed ==
    UNION {{resp.children[i].data.v.id :
                i \in {j \in 1..Len(resp.children) : ~IdRaises(resp.children[j])}} :
           resp \in server}

\* the passes the loop can still make: max_consecutive_duplicates for each
\* id not yet seen, and what is left of the current row of pages without a
\* new id
PassesLeft ==
    max_consecutive_duplicates * Cardinality(IdsServed \ seen_post_ids)
        + (max_consecutive_duplicates - 1 - consecutive_duplicates)

\* C32: with finitely many post ids, every pass of the pagination loop
\* ends the loop, or adds a new id to the ids seen, or counts one more page
\* in a row without a new id; the number of passes left goes down with
\* every pass that does not end the loop and is never negative in the
\* loop; so the loop ends, whatever pages and cursors the endpoint sends.
C32_PaginationTerminates ==
    /\ [][(phase = "paging" /\ phase' = "paging") =>
              /\ \/ seen_post_ids \subseteq seen_post_ids' /\ seen_post_ids' # seen_post_ids
                 \/ /\ seen_post_ids' = seen_post_ids
                    /\ consecutive_duplicates' = consecutive_duplicates + 1
              /\ PassesLeft' < PassesLeft]_vars
    /\ [](phase = "paging" => PassesLeft >= 0)
    /\ [](seen_post_ids \subseteq IdsServed)
    /\ <>(phase \in {"fetched", "done"})

\* the loop has ended after a page that repeated a post and named a next
\* page, and a last page without a new id: both posts were collected
WitnessC32 ==
    /\ phase = "fetched"
    /\ seen_post_ids = IdsServed
    /\ consecutive_duplicates = 1
    /\ data.k = "page" /\ NoCursor(data)
    /\ Len(all_posts) = Cardinality(IdsServed)

====
